---- MODULE Spec2Model ----
(***************************************************************************)
(* Forward HTTP proxy with a bounded request history                       *)
(* (internal/proxy/proxy.go, internal/proxy/history.go).                   *)
(*                                                                         *)
(* Request tasks run Proxy.handleHTTP step by step; admin tasks call the   *)
(* RequestHistory operations GetRecords, GetStats and Clear.  The history  *)
(* is a Go slice (array reference + length) over a heap of backing arrays, *)
(* guarded by a sync.RWMutex.                                              *)
(***************************************************************************)
EXTENDS Integers, Sequences, FiniteSets, TLC

\* ------------------------------------------------------------------ bounds
MaxReq == 3          \* proxied requests received in one run
MaxConcurrent == 2   \* request handlers in flight at the same time
MaxSize == 2         \* largest configured history capacity
NumAdmins == 2       \* admin tasks querying the store
MaxAdminOps == 2     \* store operations the admin tasks issue in one run
MaxClock == 2        \* last tick of the wall clock
PipeReqs == 2        \* requests of a run that exercises every pipeline input
HeaderReqs == 1      \* requests of a run that exercises every header set
RelayReqs == 1       \* requests of a run that exercises every upstream response
DirectReqs == 2      \* AddRecord calls of a run that hands records to the store directly
TunnelReqs == 2      \* requests of a run that mixes CONNECT with forwarded requests
AdminReqs == 2       \* requests of a run that tries every admin request
DefaultReqs == 2     \* requests of a run whose history size is not configured
StampReqs == 2       \* requests of a run whose clock runs long enough to fill a millisecond
StampClock == 4      \* last tick of the clock of that run
CaptureReqs == 1     \* requests of a run that tries every outcome of reading the request body
SnapshotReqs == 2    \* requests of a run whose caller changes the records it was returned
LockReqs == 2        \* requests of a run whose tasks contend for the store's lock

Reqs == 1..MaxReq
Admins == {100 + i : i \in 1..NumAdmins}
Tasks == Reqs \cup Admins
NoTask == 0

\* ---------------------------------------------------------- request inputs
Methods == {"GET", "OPTIONS"}
OwnURLs == {"http://own/a"}
\* value of r.Header.Get("X-Fetchr-Destination"): "" when absent or empty
DestHeaders == {"", "HTTP://dest/x", "%zz"}
\* the control header, line 186
Control == "X-Fetchr-Destination"
\* http.Header: header name -> its values in order
NoHeaders == [k \in {} |-> <<>>]
\* the headers a request carries beside the control header
OtherHeaders == {NoHeaders, [k \in {"Accept"} |-> <<"a", "b">>]}
\* h with the control header set to the single value d
WithControl(h, d) == [k \in DOMAIN h \cup {Control} |-> IF k = Control THEN <<d>> ELSE h[k]]
\* requests carrying at most the control header, with a value of ds ("": none)
PlainHeaders(ds) == {IF d = "" THEN NoHeaders ELSE WithControl(NoHeaders, d) : d \in ds}
\* every header set: with and without other headers, the control header
\* absent, present and empty, or present with a value
AllHeaders == OtherHeaders \cup {WithControl(h, d) : h \in OtherHeaders, d \in DestHeaders}
\* status codes an upstream answers with
Statuses == {200, 404, 500}
\* the CORS header names handleHTTP replaces instead of adding, lines 274-279
CorsNames ==
  {"Access-Control-Allow-Origin", "Access-Control-Allow-Methods",
   "Access-Control-Allow-Headers", "Access-Control-Expose-Headers",
   "Access-Control-Allow-Credentials", "Access-Control-Max-Age"}
\* header sets an upstream answers with
ResponseHeaders ==
  {NoHeaders,
   [k \in {"X-Test"} |-> <<"v", "w">>],
   [k \in {"Access-Control-Allow-Origin"} |-> <<"https://site">>],
   [k \in {"Access-Control-Expose-Headers", "X-Test"} |->
      IF k = "X-Test" THEN <<"v">> ELSE <<"X-A", "X-B">>]}
\* response bodies an upstream answers with
Bodies == {"", "ok"}
\* an upstream response: resp.StatusCode, resp.Header, the bytes of resp.Body
PlainResponse == [status |-> 200, hdrs |-> NoHeaders, body |-> ""]
Responses == [status : Statuses, hdrs : ResponseHeaders, body : Bodies]
\* how a CONNECT can go: net.Dial fails or succeeds; the ResponseWriter is no
\* http.Hijacker, Hijack() returns an error, or the connection is taken over
Dials == {"failed", "ok"}
Hijacks == {"unsupported", "failed", "ok"}
\* the admin server's paths (lines 66-72) and the methods tried on them
AdminPaths == {"/healthz", "/metrics", "/requests", "/requests/stats", "/requests/clear"}
AdminMethods == {"GET", "POST", "OPTIONS"}
AdminRequests == [path : AdminPaths, method : AdminMethods]
\* the three admin requests that reach the History Store
StoreRequests ==
  {[path |-> "/requests", method |-> "GET"],
   [path |-> "/requests/stats", method |-> "GET"],
   [path |-> "/requests/clear", method |-> "POST"]}
\* what can go wrong in a run: http.NewRequest, httpClient.Do, reading the
\* response body, copying it to the client
Faults == {"build", "upstream", "read", "copy"}
\* how reading r.Body can go: there is no body (r.Body == nil), io.ReadAll
\* reads it to its end, or io.ReadAll returns an error part-way
ReadKinds == {"nil", "full", "broken"}
\* the places a body of the model can break at: the bytes read until then and
\* the bytes left in the stream
Splits(b) == IF b = "ok" THEN {<<"", "ok">>, <<"o", "k">>} ELSE {<<"", b>>}
\* the outcomes of reading a body of bytes b: got, the bytes io.ReadAll read;
\* rest, the bytes left unread in r.Body; err, whether it returned an error
ReadOutcomes(b, kinds) ==
  (IF "nil" \in kinds /\ b = ""
   THEN {[nil |-> TRUE, got |-> "", rest |-> "", err |-> FALSE]} ELSE {})
  \cup (IF "full" \in kinds
        THEN {[nil |-> FALSE, got |-> b, rest |-> "", err |-> FALSE]} ELSE {})
  \cup (IF "broken" \in kinds
        THEN {[nil |-> FALSE, got |-> sp[1], rest |-> sp[2], err |-> TRUE] : sp \in Splits(b)}
        ELSE {})

VARIABLES
  lim,          \* the limits and input sets of this run
  historySize,  \* config.HistorySize
  maxSize,      \* h.maxSize
  records,      \* h.records: slice header [arr, len]
  heap,         \* backing arrays: array id -> sequence of RequestRecord
  wmu,          \* task holding h.mutex for writing (announced or inside), or NoTask
  readers,      \* tasks holding h.mutex for reading
  clock,        \* wall clock, in ticks
  pc,           \* position of every task
  req,          \* per request task: the inbound request
  rec,          \* per request task: the local RequestRecord being built
  out,          \* per request task: the outbound request and upstream response
  client,       \* per request task: what the client has been sent
  result,       \* per admin task: what its last store operation returned
  nextReq,      \* number of requests received so far
  adminOps,     \* number of admin operations started so far
  inserted,     \* ghost: ids of the records inserted so far, in insertion order
  clearedAt,    \* ghost: number of insertions before the last Clear
  tunnel        \* per request task: the connections and copy loops of its CONNECT

vars == <<lim, historySize, maxSize, records, heap, wmu, readers, clock, pc, req, rec, out,
          client, result, nextReq, adminOps, inserted, clearedAt, tunnel>>

\* ------------------------------------------------------------------- time
\* time.Time as microseconds; 0 is the zero time.Time
TimeOf(c) == c * 500

\* time.Now() after a look that showed tick c: zero or one tick later
Now(c) == {d \in {c, c + 1} : d <= lim.clock}

\* Time.Sub, as a Duration in microseconds
Sub(t, u) == t - u

\* Duration.Milliseconds(): integer millisecond count, truncated toward zero
Milliseconds(d) == IF d >= 0 THEN d \div 1000 ELSE -((-d) \div 1000)

\* ---------------------------------------------------------------- headers
\* Header.Get: the first value of the key, "" when there is none
HeaderGet(h, k) == IF k \in DOMAIN h /\ Len(h[k]) > 0 THEN h[k][1] ELSE ""

\* the values a header set holds for a name
Values(h, k) == IF k \in DOMAIN h THEN h[k] ELSE <<>>

\* Header.Add: the value is appended to the key's values
HeaderAdd(h, k, v) ==
  [j \in DOMAIN h \cup {k} |->
     IF j = k THEN (IF k \in DOMAIN h THEN Append(h[k], v) ELSE <<v>>) ELSE h[j]]

\* Header.Set: the value replaces the key's values
HeaderSet(h, k, v) == [j \in DOMAIN h \cup {k} |-> IF j = k THEN <<v>> ELSE h[j]]

\* handleHTTP, lines 148-152: the CORS headers every proxied response starts with
CorsDefaults ==
  [k \in {"Access-Control-Allow-Origin", "Access-Control-Allow-Methods",
          "Access-Control-Allow-Headers", "Access-Control-Expose-Headers"} |->
     CASE k = "Access-Control-Allow-Origin" -> <<"*">>
       [] k = "Access-Control-Allow-Methods" ->
            <<"GET, POST, PUT, DELETE, PATCH, HEAD, OPTIONS">>
       [] k = "Access-Control-Allow-Headers" ->
            <<"Content-Type, X-Fetchr-Destination, Authorization, Accept, Origin, X-Requested-With, Cache-Control, Pragma, Expires">>
       [] OTHER -> <<"*">>]

\* mutant: every response header value is added, CORS names included
RECURSIVE RelayValuesAdded(_, _, _)
RelayValuesAdded(h, k, vs) ==
  IF vs = <<>> THEN h ELSE RelayValuesAdded(HeaderAdd(h, k, Head(vs)), k, Tail(vs))

\* handleHTTP, lines 273-285: the values of one response header go to the
\* client's header set in order, Set for a CORS name and Add for any other
RECURSIVE RelayValues(_, _, _)
RelayValues(h, k, vs) ==
  IF vs = <<>> THEN h
  ELSE RelayValues(IF k \in CorsNames THEN HeaderSet(h, k, Head(vs))
                                        ELSE HeaderAdd(h, k, Head(vs)),
                   k, Tail(vs))

\* mutant: the response headers take the place of the headers set so far
RECURSIVE RelayHeadersReplacing(_, _, _)
RelayHeadersReplacing(src, keys, dst) ==
  IF keys = {} THEN [k \in DOMAIN src |-> Values(dst, k)]
  ELSE LET k == CHOOSE j \in keys : TRUE
       IN RelayHeadersReplacing(src, keys \ {k}, RelayValues(dst, k, src[k]))

\* handleHTTP, lines 270-287: every response header is relayed
RECURSIVE RelayHeaders(_, _, _)
RelayHeaders(src, keys, dst) ==
  IF keys = {} THEN dst
  ELSE LET k == CHOOSE j \in keys : TRUE
       IN RelayHeaders(src, keys \ {k}, RelayValues(dst, k, src[k]))

\* handleHTTP, lines 226-228: every value of one key is added in order
RECURSIVE AddValues(_, _, _)
AddValues(h, k, vs) ==
  IF vs = <<>> THEN h ELSE AddValues(HeaderAdd(h, k, Head(vs)), k, Tail(vs))

\* mutant: the control header is copied like any other
RECURSIVE CopyHeadersAll(_, _, _)
CopyHeadersAll(src, keys, dst) ==
  IF keys = {} THEN dst
  ELSE LET k == CHOOSE j \in keys : TRUE
       IN CopyHeadersAll(src, keys \ {k}, AddValues(dst, k, src[k]))

\* handleHTTP, lines 221-229: the request's headers are copied to the
\* outbound request key by key, the control header skipped
RECURSIVE CopyHeaders(_, _, _)
CopyHeaders(src, keys, dst) ==
  IF keys = {} THEN dst
  ELSE LET k == CHOOSE j \in keys : TRUE
       IN CopyHeaders(src, keys \ {k},
                      IF k = Control THEN dst ELSE AddValues(dst, k, src[k]))

\* map[string]string with no entry
NoFields == [k \in {} |-> ""]

\* convertHeaders, lines 615-623: each name with its first value; a name
\* without values is left out
ConvertHeaders(h) == [k \in {j \in DOMAIN h : Len(h[j]) > 0} |-> h[k][1]]

\* ------------------------------------------------------------------- URLs
\* net/url.Parse on the strings of the model
ParseURL(s) ==
  CASE s = "%zz" -> [err |-> TRUE, scheme |-> "", host |-> "", path |-> ""]
    [] s = "HTTP://dest/x" -> [err |-> FALSE, scheme |-> "http", host |-> "dest", path |-> "/x"]
    [] s = "http://dest/x" -> [err |-> FALSE, scheme |-> "http", host |-> "dest", path |-> "/x"]
    [] s = "http://own/a" -> [err |-> FALSE, scheme |-> "http", host |-> "own", path |-> "/a"]
    [] OTHER -> [err |-> FALSE, scheme |-> "", host |-> "", path |-> s]

\* (*url.URL).String()
URLString(u) ==
  IF u.scheme = "" THEN u.path ELSE u.scheme \o "://" \o u.host \o u.path

\* ---------------------------------------------------------------- records
NoRecord ==
  [id |-> 0, method |-> "", url |-> "", status |-> 0, success |-> FALSE,
   error |-> "", pStart |-> 0, uStart |-> 0, uEnd |-> 0, pEnd |-> 0,
   total |-> 0, upstream |-> 0, overhead |-> 0, reqSize |-> 0, respSize |-> 0,
   respHdrs |-> NoFields, respBody |-> "", reqHdrs |-> NoFields, reqBody |-> ""]

\* ------------------------------------------------------------------- heap
\* contents of a slice
Elems(hp, s) == SubSeq(hp[s.arr], 1, s.len)

\* an array id no live array has
FreshArr(hp) == CHOOSE i \in 1..(Cardinality(DOMAIN hp) + 1) : i \notin DOMAIN hp

\* arrays still referenced by the store or by a returned slice
Collect(hp, recs, res) ==
  LET live == {recs.arr} \cup {res[a].snap.arr : a \in Admins}
  IN [i \in (DOMAIN hp) \cap live |-> hp[i]]

NilSlice == [arr |-> 0, len |-> 0]

\* ------------------------------------------------------- RequestHistory
\* New, line 44: the history size used when none is configured
DefaultHistorySize == 1000

\* NewRequestHistory, lines 49-54: an empty slice and the given maximum
NewRequestHistory(max) ==
  [maxSize |-> max, records |-> [arr |-> 1, len |-> 0], heap |-> (1 :> <<>>)]

\* mutant: the configured size is passed on as it is
NewUnchecked(size) == NewRequestHistory(size)

\* New, lines 40-53: the store is created with the configured size, or with
\* the default when that is zero or negative
New(size) == NewRequestHistory(IF size <= 0 THEN DefaultHistorySize ELSE size)

\* AddRecord, lines 62-64: the durations are recomputed from the timestamps
Metrics(record) ==
  LET total == Milliseconds(Sub(record.pEnd, record.pStart))
      upstream == Milliseconds(Sub(record.uEnd, record.uStart))
  IN [record EXCEPT !.total = total, !.upstream = upstream,
                    !.overhead = total - upstream]

\* mutant: the record takes the place of the newest one
PrependReplacing(hp, recs, record, id) ==
  LET old == Elems(hp, recs)
  IN IF old = <<>>
     THEN [heap |-> (id :> <<record>>) @@ hp, records |-> [arr |-> id, len |-> 1]]
     ELSE [heap |-> (id :> (<<record>> \o Tail(old))) @@ hp,
           records |-> [arr |-> id, len |-> recs.len]]

\* mutant: the record is put behind the current contents
PrependBehind(hp, recs, record, id) ==
  [heap |-> (id :> (Elems(hp, recs) \o <<record>>)) @@ hp,
   records |-> [arr |-> id, len |-> recs.len + 1]]

\* AddRecord, line 67: append([]RequestRecord{record}, h.records...) builds a
\* new array id holding the record followed by the current contents
Prepend(hp, recs, record, id) ==
  [heap |-> (id :> (<<record>> \o Elems(hp, recs))) @@ hp,
   records |-> [arr |-> id, len |-> recs.len + 1]]

\* mutant: the cut comes one element late
TrimLate(recs, max) == IF recs.len > max + 1 THEN [recs EXCEPT !.len = max] ELSE recs

\* AddRecord, lines 70-72: reslice to the first max elements
Trim(recs, max) == IF recs.len > max THEN [recs EXCEPT !.len = max] ELSE recs

\* mutant: the newest record survives
ClearSliceKeepOne(recs) == [recs EXCEPT !.len = IF @ > 0 THEN 1 ELSE 0]

\* Clear, line 99: h.records[:0] keeps the array and drops the length
ClearSlice(recs) == [recs EXCEPT !.len = 0]

\* mutant: every call copies into the same reused array
GetRecordsShared(hp, recs, id) ==
  [heap |-> (0 :> Elems(hp, recs)) @@ hp,
   result |-> [arr |-> 0, len |-> recs.len]]

\* GetRecords, lines 81-83: make a new array id and copy the contents into it
GetRecords(hp, recs, id) ==
  [heap |-> (id :> Elems(hp, recs)) @@ hp,
   result |-> [arr |-> id, len |-> recs.len]]

RECURSIVE SumSeq(_)
SumSeq(s) == IF s = <<>> THEN 0 ELSE Head(s) + SumSeq(Tail(s))

\* int64 division, truncating toward zero
Quot(a, b) == IF a >= 0 THEN a \div b ELSE -((-a) \div b)

\* mutant: only successful records are counted by status code
AggregateSuccessOnly(rs) ==
  LET count == Len(rs)
  IN [total_requests |-> count,
      success_count |-> Cardinality({i \in 1..count : rs[i].success}),
      error_count |-> Cardinality({i \in 1..count : ~rs[i].success}),
      avg_duration_ms |-> Quot(SumSeq([i \in 1..count |-> rs[i].total]), count),
      avg_upstream_latency_ms |-> Quot(SumSeq([i \in 1..count |-> rs[i].upstream]), count),
      avg_proxy_overhead_ms |-> Quot(SumSeq([i \in 1..count |-> rs[i].overhead]), count),
      total_request_size |-> SumSeq([i \in 1..count |-> rs[i].reqSize]),
      total_response_size |-> SumSeq([i \in 1..count |-> rs[i].respSize]),
      status_codes |-> [c \in {rs[i].status : i \in 1..count} |->
                          Cardinality({i \in 1..count : rs[i].status = c /\ rs[i].success})],
      methods |-> [m \in {rs[i].method : i \in 1..count} |->
                          Cardinality({i \in 1..count : rs[i].method = m})]]

\* GetStats, lines 113-148: the pass over the records and the result map
Aggregate(rs) ==
  LET count == Len(rs)
  IN [total_requests |-> count,
      success_count |-> Cardinality({i \in 1..count : rs[i].success}),
      error_count |-> Cardinality({i \in 1..count : ~rs[i].success}),
      avg_duration_ms |-> Quot(SumSeq([i \in 1..count |-> rs[i].total]), count),
      avg_upstream_latency_ms |-> Quot(SumSeq([i \in 1..count |-> rs[i].upstream]), count),
      avg_proxy_overhead_ms |-> Quot(SumSeq([i \in 1..count |-> rs[i].overhead]), count),
      total_request_size |-> SumSeq([i \in 1..count |-> rs[i].reqSize]),
      total_response_size |-> SumSeq([i \in 1..count |-> rs[i].respSize]),
      status_codes |-> [c \in {rs[i].status : i \in 1..count} |->
                          Cardinality({i \in 1..count : rs[i].status = c})],
      methods |-> [m \in {rs[i].method : i \in 1..count} |->
                          Cardinality({i \in 1..count : rs[i].method = m})]]

\* mutant: the averages are computed whatever the count; with no record the
\* division panics
GetStatsUnguarded(rs) ==
  IF Len(rs) = 0 THEN [panic |-> "runtime error: integer divide by zero"]
  ELSE Aggregate(rs)

\* GetStats, lines 107-148: an empty store is answered without the pass
GetStats(rs) == IF Len(rs) = 0 THEN [total_requests |-> 0] ELSE Aggregate(rs)


\* records a caller of AddRecord fills in itself: four timestamps at the
\* given offsets (microseconds) from a start, with the three durations preset
DirectRecord(m, st, ok, offs, rq, rs) ==
  [NoRecord EXCEPT !.method = m, !.status = st, !.success = ok,
                   !.error = IF ok THEN "" ELSE "upstream failed",
                   !.pStart = 1000 + offs[1], !.uStart = 1000 + offs[2],
                   !.uEnd = 1000 + offs[3], !.pEnd = 1000 + offs[4],
                   !.total = 7, !.upstream = 7, !.overhead = 7,
                   !.reqSize = rq, !.respSize = rs]

DirectRecords ==
  {DirectRecord("GET", 200, TRUE, <<0, 5000, 15000, 20000>>, 100, 500),
   DirectRecord("POST", 500, FALSE, <<0, 2000, 12000, 15000>>, 200, 100),
   DirectRecord("GET", 200, TRUE, <<0, 5000, 15000, 20001>>, 0, 3),
   DirectRecord("GET", 404, TRUE, <<0, 400, 1300, 1900>>, 5, 0)}

\* ------------------------------------------------------------ sync.RWMutex
WriteInside == {"add_trim", "clr_unlock"}
ReadWaits == {"get_rwait", "st_rwait"}
ReadInside == {"get_copy", "st_compute"}

AfterRLock(p) == IF p = "get_rwait" THEN "get_copy" ELSE "st_compute"

\* Lock(), first half: take the writers' mutex; from now on new readers block
LockCall(t, next) ==
  /\ wmu = NoTask
  /\ wmu' = t
  /\ readers' = readers
  /\ pc' = [pc EXCEPT ![t] = next]

\* mutant: the writer does not wait for the active readers
CanEnterEarly(t) == wmu = t

\* Lock(), second half: the announced writer enters once the active readers
\* have left
CanEnter(t) == wmu = t /\ readers = {}

\* mutant: the readers that blocked meanwhile are left waiting
UnlockSilent(t, next) ==
  /\ wmu' = NoTask
  /\ readers' = readers
  /\ pc' = [pc EXCEPT ![t] = next]

\* Unlock(): the readers that blocked meanwhile are let in
Unlock(t, next) ==
  /\ wmu' = NoTask
  /\ readers' = {u \in Tasks : pc[u] \in ReadWaits}
  /\ pc' = [u \in Tasks |->
              IF u = t THEN next
              ELSE IF pc[u] \in ReadWaits THEN AfterRLock(pc[u]) ELSE pc[u]]

\* RLock(): enter at once unless a writer holds or awaits the lock
RLock(t, inside, waiting) ==
  /\ wmu' = wmu
  /\ IF wmu = NoTask
     THEN /\ readers' = readers \cup {t}
          /\ pc' = [pc EXCEPT ![t] = inside]
     ELSE /\ readers' = readers
          /\ pc' = [pc EXCEPT ![t] = waiting]

\* RUnlock()
RUnlock(t, next) ==
  /\ wmu' = wmu
  /\ readers' = readers \ {t}
  /\ pc' = [pc EXCEPT ![t] = next]

\* ------------------------------------------------------- Proxy.handleHTTP
\* dest: r.Header.Get of the control header; hdrs: r.Header; body: the bytes
\* of r.Body; read: how reading r.Body goes
NoRead == [nil |-> FALSE, got |-> "", rest |-> "", err |-> FALSE]
NoReq == [method |-> "", url |-> "", dest |-> "", hdrs |-> NoHeaders, body |-> "",
          read |-> NoRead]
NoURL == [err |-> TRUE, scheme |-> "", host |-> "", path |-> ""]
\* target: targetURL; sent: URL of proxyReq; calls: httpClient.Do calls;
\* status: resp.StatusCode; site: the line AddRecord is called from;
\* hdrs: proxyReq.Header; rhdrs: resp.Header; body: the bytes of resp.Body;
\* readAt (ghost): the tick at which resp.Body had been read to its end;
\* reader: bodyReader, the body handed to http.NewRequest; upBody: the body
\* bytes the upstream call read from it
NoReader == [kind |-> "nil", data |-> ""]
NoOut == [target |-> NoURL, sent |-> NoURL, calls |-> 0, status |-> 0, site |-> 0,
          hdrs |-> NoHeaders, rhdrs |-> NoHeaders, body |-> "", readAt |-> 0,
          reader |-> NoReader, upBody |-> ""]

\* captureRequestBody, lines 568-589: without a body nothing is captured; a
\* failed read captures nothing and hands on r.Body itself, read as far as
\* it was; otherwise the bytes read are captured with their number, and a new
\* reader over them is handed on
CaptureRequestBody(o) ==
  IF o.nil THEN [body |-> "", size |-> 0, reader |-> NoReader]
  ELSE IF o.err
       THEN [body |-> "", size |-> 0, reader |-> [kind |-> "original", data |-> o.rest]]
       ELSE [body |-> o.got, size |-> Len(o.got),
             reader |-> [kind |-> "fresh", data |-> o.got]]
\* status: status line sent (0: none yet); body: "", "full" or "cut";
\* hdrs: w.Header(); data: the body bytes delivered in full;
\* at (ghost): the tick at which line 290 wrote the status line and headers
NoClient == [status |-> 0, body |-> "", hdrs |-> NoHeaders, data |-> "", at |-> 0]

\* the local state of a handler: position, record, outbound side, client
\* side, and the last tick it read
Local(t) == [pc |-> pc[t], rec |-> rec[t], out |-> out[t], client |-> client[t],
             clk |-> clock]

\* mutant: the error reply is sent before the record is handed to AddRecord
FailReplying(L, msg, site) ==
  {[L EXCEPT !.rec.error = msg, !.rec.pEnd = TimeOf(c), !.out.site = site,
             !.client.status = IF site \in {192, 204} THEN 400
                               ELSE IF site = 239 THEN 502 ELSE 500,
             !.clk = c, !.pc = "add_lock"] : c \in Now(L.clk)}

\* mutant: the failed record takes the status the client is answered with
FailStatusRecorded(L, msg, site) ==
  {[L EXCEPT !.rec.error = msg, !.rec.pEnd = TimeOf(c), !.out.site = site,
             !.rec.status = IF site \in {192, 204} THEN 400
                             ELSE IF site = 239 THEN 502 ELSE 500,
             !.clk = c, !.pc = "add_lock"] : c \in Now(L.clk)}

\* the record is marked failed, stamped, and handed to AddRecord from `site`
Fail(L, msg, site) ==
  {[L EXCEPT !.rec.error = msg, !.rec.pEnd = TimeOf(c), !.out.site = site,
             !.clk = c, !.pc = "add_lock"] : c \in Now(L.clk)}

\* mutant: an OPTIONS request is forwarded like any other
StartForwarding(t, rq, clk) ==
  LET L == [pc |-> "idle", rec |-> NoRecord, out |-> NoOut,
            client |-> [NoClient EXCEPT !.hdrs = CorsDefaults], clk |-> clk]
  IN {[L EXCEPT !.rec = [NoRecord EXCEPT !.id = t, !.method = rq.method,
                                         !.url = rq.url,
                                         !.pStart = TimeOf(c)],
                !.clk = c, !.pc = "resolve"] : c \in Now(clk)}

\* handleHTTP, lines 147-180: CORS headers, the OPTIONS short-circuit,
\* proxy-start stamp, request id, capture of the request body (lines
\* 568-589), record creation
Start(t, rq, clk) ==
  LET L == [pc |-> "idle", rec |-> NoRecord, out |-> NoOut,
            client |-> [NoClient EXCEPT !.hdrs = CorsDefaults], clk |-> clk]
      cap == CaptureRequestBody(rq.read)
  IN IF rq.method = "OPTIONS"
     THEN {[L EXCEPT !.client.status = 200, !.pc = "done"]}
     ELSE {[L EXCEPT !.rec = [NoRecord EXCEPT !.id = t, !.method = rq.method,
                                              !.url = rq.url,
                                              !.reqHdrs = ConvertHeaders(rq.hdrs),
                                              !.reqBody = cap.body,
                                              !.reqSize = cap.size,
                                              !.pStart = TimeOf(c),
                                              !.success = FALSE],
                     !.out.reader = cap.reader,
                     !.clk = c, !.pc = "resolve"] : c \in Now(clk)}

\* mutant: the header names the record's URL but the request's own URL stays
\* the target
ResolveDestinationOwn(rq, L) ==
  LET hdr == rq.dest
      target == ParseURL(rq.url)
  IN IF hdr # "" /\ ParseURL(hdr).err
     THEN Fail(L, "Invalid X-Fetchr-Destination URL", 192)
     ELSE {[L EXCEPT !.rec.url = IF hdr # "" THEN hdr ELSE @,
                     !.out.target = target, !.pc = "build"]}

\* handleHTTP, lines 182-208: the destination header, when non-empty, is the
\* target; otherwise the request's own URL is
ResolveDestination(rq, L) ==
  LET hdr == rq.dest
      target == IF hdr # "" THEN ParseURL(hdr) ELSE ParseURL(rq.url)
  IN IF target.err
     THEN IF hdr # "" THEN Fail(L, "Invalid X-Fetchr-Destination URL", 192)
                      ELSE Fail(L, "Invalid URL", 204)
     ELSE {[L EXCEPT !.rec.url = IF hdr # "" THEN hdr ELSE @,
                     !.out.target = target, !.pc = "build"]}

\* handleHTTP, lines 210-229: http.NewRequest on targetURL.String(); the
\* library call may fail
BuildRequest(rq, L) ==
  LET sent == ParseURL(URLString(L.out.target))
      hdrs == CopyHeaders(rq.hdrs, DOMAIN rq.hdrs, NoHeaders)
  IN (IF sent.err THEN {}
      ELSE {[L EXCEPT !.out.sent = sent, !.out.hdrs = hdrs, !.pc = "call"]})
     \cup (IF sent.err \/ "build" \in lim.faults
          THEN Fail(L, "Failed to create proxy request", 215) ELSE {})

\* mutant: the upstream call is entered without the upstream-start stamp
CallUpstreamUnstamped(rq, L) ==
  {[L EXCEPT !.out.calls = @ + 1, !.out.upBody = L.out.reader.data, !.clk = c,
             !.pc = "upstream"] : c \in Now(L.clk)}

\* handleHTTP, lines 232-233: upstream-start stamp, then httpClient.Do is
\* entered, reads the outbound body from the reader it was built with, and
\* the handler blocks in it
CallUpstream(rq, L) ==
  {[L EXCEPT !.rec.uStart = TimeOf(c), !.out.calls = @ + 1,
             !.out.upBody = L.out.reader.data, !.clk = c,
             !.pc = "upstream"] : c \in Now(L.clk)}

\* mutant: a failed upstream call is tried once more before it is given up
UpstreamReturnRetrying(rq, L) ==
  UNION {
    (IF "upstream" \in lim.faults
     THEN Fail([L EXCEPT !.rec.uEnd = TimeOf(c), !.out.calls = @ + 1, !.clk = c],
               "Failed to proxy request", 239)
     ELSE {})
    \cup {[L EXCEPT !.rec.uEnd = TimeOf(c), !.out.status = r.status,
                    !.out.rhdrs = r.hdrs, !.out.body = r.body, !.clk = c,
                    !.pc = "capture"] : r \in lim.responses}
    : c \in Now(L.clk)}

\* handleHTTP, lines 233-247: httpClient.Do returns an error or a response
UpstreamReturn(rq, L) ==
  UNION {
    (IF "upstream" \in lim.faults
     THEN Fail([L EXCEPT !.rec.uEnd = TimeOf(c), !.clk = c], "Failed to proxy request", 239)
     ELSE {})
    \cup {[L EXCEPT !.rec.uEnd = TimeOf(c), !.out.status = r.status,
                    !.out.rhdrs = r.hdrs, !.out.body = r.body, !.clk = c,
                    !.pc = "capture"] : r \in lim.responses}
    : c \in Now(L.clk)}

\* mutant: a failed body read answers 500 without recording the request
CaptureResponseUnrecorded(rq, L) ==
  (IF "read" \in lim.faults
   THEN {[L EXCEPT !.rec.error = "Failed to read response body",
                   !.client.status = 500, !.pc = "done"]}
   ELSE {})
  \cup {[L EXCEPT !.rec.status = L.out.status,
                  !.rec.respHdrs = ConvertHeaders(L.out.rhdrs),
                  !.rec.respBody = L.out.body, !.rec.respSize = Len(L.out.body),
                  !.rec.success = TRUE,
                  !.rec.pEnd = TimeOf(c), !.clk = c, !.pc = "write"]
        : c \in Now(L.clk)}

\* handleHTTP, lines 249-267: the response body is read; on success the
\* record takes the response data and the proxy-end stamp
CaptureResponse(rq, L) ==
  (IF "read" \in lim.faults THEN Fail(L, "Failed to read response body", 254) ELSE {})
  \cup UNION {{[L EXCEPT !.out.readAt = r, !.rec.status = L.out.status,
                         !.rec.respHdrs = ConvertHeaders(L.out.rhdrs),
                         !.rec.respBody = L.out.body, !.rec.respSize = Len(L.out.body),
                         !.rec.success = TRUE,
                         !.rec.pEnd = TimeOf(c), !.clk = c, !.pc = "write"]
                : c \in Now(r)} : r \in Now(L.clk)}

\* handleHTTP, lines 269-290: the response headers and the status go to the
\* client, at tick c
Sent(L, c) ==
  [L EXCEPT !.client.status = L.out.status,
            !.client.hdrs = RelayHeaders(L.out.rhdrs, DOMAIN L.out.rhdrs, L.client.hdrs),
            !.client.at = c, !.clk = c, !.out.site = 300, !.pc = "add_lock"]

\* mutant: a failed copy sets the error and leaves Success as it was
WriteResponseKeepSuccess(rq, L) ==
  UNION {{[Sent(L, c) EXCEPT !.client.body = "full", !.client.data = L.out.body]}
         \cup (IF "copy" \in lim.faults
              THEN {[Sent(L, c) EXCEPT !.client.body = "cut",
                                       !.rec.error = "Failed to copy response body"]}
              ELSE {})
         : c \in Now(L.clk)}

\* mutant: a failed copy leaves a record like those of the earlier failures,
\* without the response data
WriteResponseDiscarding(rq, L) ==
  UNION {{[Sent(L, c) EXCEPT !.client.body = "full", !.client.data = L.out.body]}
         \cup (IF "copy" \in lim.faults
              THEN {[Sent(L, c) EXCEPT !.client.body = "cut",
                                       !.rec.error = "Failed to copy response body",
                                       !.rec.success = FALSE, !.rec.status = 0,
                                       !.rec.respHdrs = NoFields, !.rec.respBody = "",
                                       !.rec.respSize = 0]}
              ELSE {})
         : c \in Now(L.clk)}

\* mutant: the proxy-end stamp is taken once the response has been sent
WriteResponseStamping(rq, L) ==
  UNION {UNION {{[Sent(L, c) EXCEPT !.client.body = "full", !.client.data = L.out.body,
                                    !.rec.pEnd = TimeOf(e), !.clk = e]}
                \cup (IF "copy" \in lim.faults
                     THEN {[Sent(L, c) EXCEPT !.client.body = "cut",
                                              !.rec.error = "Failed to copy response body",
                                              !.rec.success = FALSE,
                                              !.rec.pEnd = TimeOf(e), !.clk = e]}
                     ELSE {})
                : e \in Now(c)}
         : c \in Now(L.clk)}

\* handleHTTP, lines 269-300: headers and status go to the client, the body
\* is copied, and the record is handed to AddRecord
WriteResponse(rq, L) ==
  UNION {{[Sent(L, c) EXCEPT !.client.body = "full", !.client.data = L.out.body]}
         \cup (IF "copy" \in lim.faults
              THEN {[Sent(L, c) EXCEPT !.client.body = "cut",
                                       !.rec.error = "Failed to copy response body",
                                       !.rec.success = FALSE]}
              ELSE {})
         : c \in Now(L.clk)}

\* mutant: a failed upstream call is answered like an internal failure
ErrorStatusInternal(site) ==
  CASE site \in {192, 204} -> 400
    [] site \in {215, 239, 254} -> 500
    [] OTHER -> 0

\* status passed to http.Error once AddRecord has returned to line `site`
ErrorStatus(site) ==
  CASE site \in {192, 204} -> 400
    [] site = 215 -> 500
    [] site = 239 -> 502
    [] site = 254 -> 500
    [] OTHER -> 0

\* handleHTTP after AddRecord returned: http.Error on the failure paths
\* (lines 193, 205, 216, 240, 255), nothing more to send after line 300
Reply(rq, L) ==
  {[L EXCEPT !.client.status = IF L.out.site = 300 THEN @ ELSE ErrorStatus(L.out.site),
             !.pc = "done"]}

\* lines 147-233: from the request's arrival until the handler blocks in the
\* upstream call or hands a failed record to AddRecord
BeforeUpstream(t, rq, clk) ==
  LET S1 == UNION {IF L.pc = "resolve" THEN ResolveDestination(rq, L) ELSE {L} :
                     L \in Start(t, rq, clk)}
      S2 == UNION {IF L.pc = "build" THEN BuildRequest(rq, L) ELSE {L} : L \in S1}
  IN UNION {IF L.pc = "call" THEN CallUpstream(rq, L) ELSE {L} : L \in S2}

\* lines 233-300: from the upstream call's return until AddRecord is called
AfterUpstream(rq, L0) ==
  LET S1 == UNION {IF L.pc = "capture" THEN CaptureResponse(rq, L) ELSE {L} :
                     L \in UpstreamReturn(rq, L0)}
  IN UNION {IF L.pc = "write" THEN WriteResponse(rq, L) ELSE {L} : L \in S1}

\* ----------------------------------------------------- Proxy.handleConnect
\* dial, hijack: how net.Dial and the takeover went ("": not tried);
\* dest, conn: the destination and the hijacked client connection ("none",
\* "open", "closed"); up: the goroutine copying client -> destination,
\* down: the handler's copy destination -> client ("none", "copying", "ended")
NoTunnel == [dial |-> "", hijack |-> "", dest |-> "none", conn |-> "none",
             up |-> "none", down |-> "none"]

\* ResponseWriter.WriteHeader: the first status written stands, a later call
\* is superfluous
WriteHeader(cl, code) == [cl EXCEPT !.status = IF @ = 0 THEN code ELSE @]

\* mutant: a failed dial is answered 502, as handleHTTPS (line 739) does
ConnectErrorStatusGateway(step) ==
  CASE step = "dial" -> 502
    [] step = "unsupported" -> 500
    [] step = "hijack" -> 503

\* the status handleConnect passes to http.Error: lines 315, 328, 334
ConnectErrorStatus(step) ==
  CASE step = "dial" -> 503
    [] step = "unsupported" -> 500
    [] step = "hijack" -> 503

\* mutant: only an established tunnel closes its connections, as in
\* handleHTTPS (lines 735-778); a failed takeover leaves the destination open
HandleConnectLeaking(t, dial, hijack) ==
  LET T == [NoTunnel EXCEPT !.dial = dial]
      ok == WriteHeader(NoClient, 200)
  IN IF dial = "failed"
     THEN [pc |-> "done", rec |-> NoRecord, tunnel |-> T,
           client |-> WriteHeader(NoClient, ConnectErrorStatus("dial"))]
     ELSE IF hijack \in {"unsupported", "failed"}
     THEN [pc |-> "done", rec |-> NoRecord,
           tunnel |-> [T EXCEPT !.hijack = hijack, !.dest = "open"],
           client |-> WriteHeader(ok, ConnectErrorStatus(
                        IF hijack = "failed" THEN "hijack" ELSE "unsupported"))]
     ELSE [pc |-> "relay", rec |-> NoRecord,
           tunnel |-> [T EXCEPT !.hijack = hijack, !.dest = "open", !.conn = "open",
                                !.up = "copying", !.down = "copying"],
           client |-> ok]

\* mutant: a CONNECT whose dial failed is put on record
HandleConnectRecorded(t, dial, hijack) ==
  LET T == [NoTunnel EXCEPT !.dial = dial]
  IN IF dial = "failed"
     THEN [pc |-> "add_lock", tunnel |-> T,
           rec |-> [NoRecord EXCEPT !.id = t, !.method = "CONNECT"],
           client |-> NoClient]
     ELSE [pc |-> "relay", rec |-> NoRecord,
           tunnel |-> [T EXCEPT !.hijack = "ok", !.dest = "open", !.conn = "open",
                                !.up = "copying", !.down = "copying"],
           client |-> WriteHeader(NoClient, 200)]

\* handleConnect, lines 310-349: from the dial until the handler returns or
\* blocks in its io.Copy; deferred Close calls run on return
HandleConnect(t, dial, hijack) ==
  LET T == [NoTunnel EXCEPT !.dial = dial]
      ok == WriteHeader(NoClient, 200)
  IN IF dial = "failed"
     THEN [pc |-> "done", rec |-> NoRecord, tunnel |-> T,
           client |-> WriteHeader(NoClient, ConnectErrorStatus("dial"))]
     ELSE IF hijack = "unsupported"
     THEN [pc |-> "done", rec |-> NoRecord,
           tunnel |-> [T EXCEPT !.hijack = hijack, !.dest = "closed"],
           client |-> WriteHeader(ok, ConnectErrorStatus("unsupported"))]
     ELSE IF hijack = "failed"
     THEN [pc |-> "done", rec |-> NoRecord,
           tunnel |-> [T EXCEPT !.hijack = hijack, !.dest = "closed"],
           client |-> WriteHeader(ok, ConnectErrorStatus("hijack"))]
     ELSE [pc |-> "relay", rec |-> NoRecord,
           tunnel |-> [T EXCEPT !.hijack = hijack, !.dest = "open", !.conn = "open",
                                !.up = "copying", !.down = "copying"],
           client |-> ok]

\* ghost: the ids inserted since the last Clear, oldest first
Log == SubSeq(inserted, clearedAt + 1, Len(inserted))

\* ---------------------------------------------------------- request tasks
InFlight == {t \in Reqs : pc[t] \notin {"idle", "returned"}}

\* the handler's local state after a step
Install(t, L) ==
  /\ pc' = [pc EXCEPT ![t] = L.pc]
  /\ rec' = [rec EXCEPT ![t] = L.rec]
  /\ out' = [out EXCEPT ![t] = L.out]
  /\ client' = [client EXCEPT ![t] = L.client]
  /\ clock' = L.clk

\* ServeHTTP / handleHTTP, lines 130-233: a request arrives and its handler
\* runs until it blocks in the upstream call, calls AddRecord, or is done
Receive(t) ==
  /\ pc[t] = "idle"
  /\ t = nextReq + 1
  /\ t <= lim.reqs
  /\ Cardinality(InFlight) < lim.concurrent
  /\ nextReq' = t
  /\ ~lim.direct
  /\ \E m \in Methods, u \in OwnURLs, h \in lim.headers, b \in lim.bodies :
     \E o \in ReadOutcomes(b, lim.reads) :
       LET rq == [method |-> m, url |-> u, dest |-> HeaderGet(h, Control), hdrs |-> h,
                  body |-> b, read |-> o]
       IN /\ req' = [req EXCEPT ![t] = rq]
          /\ \E L \in BeforeUpstream(t, rq, clock) : Install(t, L)
  /\ UNCHANGED <<lim, historySize, tunnel, maxSize, records, heap, wmu, readers, result, adminOps,
                 inserted, clearedAt>>

\* a caller of the package hands AddRecord a record it filled in itself, as
\* TestCalculateMetrics and TestGetStats do
AddRecordCall(t) ==
  /\ pc[t] = "idle"
  /\ t = nextReq + 1
  /\ t <= lim.reqs
  /\ Cardinality(InFlight) < lim.concurrent
  /\ lim.direct
  /\ nextReq' = t
  /\ \E r \in DirectRecords :
       /\ req' = [req EXCEPT ![t] = [NoReq EXCEPT !.method = r.method]]
       /\ rec' = [rec EXCEPT ![t] = [r EXCEPT !.id = t]]
  /\ pc' = [pc EXCEPT ![t] = "add_lock"]
  /\ UNCHANGED <<lim, historySize, tunnel, maxSize, records, heap, wmu, readers, clock, out, client,
                 result, adminOps, inserted, clearedAt>>

\* ServeHTTP, lines 137-140, and handleConnect, lines 310-349: a CONNECT
\* arrives and its handler runs until it returns or blocks in its io.Copy
Connect(t) ==
  /\ pc[t] = "idle"
  /\ t = nextReq + 1
  /\ t <= lim.reqs
  /\ Cardinality(InFlight) < lim.concurrent
  /\ nextReq' = t
  /\ \E o \in lim.tunnels :
       LET L == HandleConnect(t, o.dial, o.hijack)
       IN /\ pc' = [pc EXCEPT ![t] = L.pc]
          /\ rec' = [rec EXCEPT ![t] = L.rec]
          /\ client' = [client EXCEPT ![t] = L.client]
          /\ tunnel' = [tunnel EXCEPT ![t] = L.tunnel]
  /\ req' = [req EXCEPT ![t] = [NoReq EXCEPT !.method = "CONNECT"]]
  /\ UNCHANGED <<lim, historySize, maxSize, records, heap, wmu, readers, clock, out, result,
                 adminOps, inserted, clearedAt>>

\* handleConnect, lines 349-353: the handler's io.Copy(clientConn, dest)
\* returns, the handler returns and its deferred calls close both connections
CopyDownEnds(t) ==
  /\ pc[t] = "relay"
  /\ tunnel' = [tunnel EXCEPT ![t].down = "ended", ![t].conn = "closed",
                              ![t].dest = "closed"]
  /\ pc' = [pc EXCEPT ![t] = "done"]
  /\ UNCHANGED <<lim, historySize, maxSize, records, heap, wmu, readers, clock, req, rec, out,
                 client, result, nextReq, adminOps, inserted, clearedAt>>

\* handleConnect, lines 343-347: the goroutine's io.Copy(dest, clientConn)
\* returns, on the client's EOF, on an error, or once a connection is closed
CopyUpEnds(t) ==
  /\ tunnel[t].up = "copying"
  /\ tunnel' = [tunnel EXCEPT ![t].up = "ended"]
  /\ UNCHANGED <<lim, historySize, maxSize, records, heap, wmu, readers, clock, pc, req, rec,
                 out, client, result, nextReq, adminOps, inserted, clearedAt>>

\* handleHTTP, lines 233-300: the upstream call returns and the handler runs
\* until it calls AddRecord
Upstream(t) ==
  /\ pc[t] = "upstream"
  /\ \E L \in AfterUpstream(req[t], Local(t)) : Install(t, L)
  /\ UNCHANGED <<lim, historySize, tunnel, maxSize, records, heap, wmu, readers, req, result,
                 nextReq, adminOps, inserted, clearedAt>>

\* AddRecord, line 58: Lock() is called
AddRecordLock(t) ==
  /\ pc[t] = "add_lock"
  /\ LockCall(t, "add_wait")
  /\ UNCHANGED <<lim, historySize, tunnel, maxSize, records, heap, clock, req, rec, out, client,
                 result, nextReq, adminOps, inserted, clearedAt>>

\* AddRecord, lines 58-67: the lock is acquired, the durations are computed
\* and the record is put in front
AddRecordInsert(t) ==
  /\ pc[t] = "add_wait"
  /\ CanEnter(t)
  /\ LET record == Metrics(rec[t])
         new == Prepend(heap, records, record, FreshArr(heap))
     IN /\ records' = new.records
        /\ heap' = Collect(new.heap, new.records, result)
        /\ inserted' = Append(inserted, record.id)
  /\ pc' = [pc EXCEPT ![t] = "add_trim"]
  /\ UNCHANGED <<lim, historySize, tunnel, maxSize, wmu, readers, clock, req, rec, out, client,
                 result, nextReq, adminOps, clearedAt>>

\* AddRecord, lines 69-73, and handleHTTP after the call: the slice is cut
\* to maxSize, the lock is released, and the handler sends its error reply
AddRecordTrim(t) ==
  /\ pc[t] = "add_trim"
  /\ IF maxSize < 0
     THEN \* h.records[:h.maxSize] panics; the deferred Unlock() runs
          /\ records' = records
          /\ Unlock(t, "panicked")
          /\ client' = client
     ELSE /\ records' = Trim(records, maxSize)
          /\ \E L \in Reply(req[t], Local(t)) :
               /\ Unlock(t, L.pc)
               /\ client' = [client EXCEPT ![t] = L.client]
  /\ UNCHANGED <<lim, historySize, tunnel, maxSize, heap, clock, req, rec, out, result, nextReq,
                 adminOps, inserted, clearedAt>>

\* ServeHTTP, lines 130-144: the handler has returned; its locals are gone
\* (the request's method stays on record as a ghost)
Return(t) ==
  /\ pc[t] = "done"
  /\ pc' = [pc EXCEPT ![t] = "returned"]
  /\ req' = [req EXCEPT ![t] = [NoReq EXCEPT !.method = req[t].method]]
  /\ rec' = [rec EXCEPT ![t] = NoRecord]
  /\ out' = [out EXCEPT ![t] = NoOut]
  /\ client' = [client EXCEPT ![t] = NoClient]
  /\ UNCHANGED <<lim, historySize, tunnel, maxSize, records, heap, wmu, readers, clock, result,
                 nextReq, adminOps, inserted, clearedAt>>

\* ------------------------------------------------------------ admin tasks
\* path, method: the admin request; status: the status answered (0: none
\* yet); op: "get" or "st" once the store has answered; snap: the slice
\* GetRecords returned; total: the "total" of GetRecordsJSON; stats: what
\* GetStats returned; ghosts: seen, what the store held then, and log, the
\* ids inserted since the last Clear then
NoResult == [op |-> "", path |-> "", method |-> "", status |-> 0, snap |-> NilSlice,
             total |-> 0, stats |-> [total_requests |-> 0], seen |-> <<>>, log |-> <<>>]

\* mutant: handleClearHistory clears whatever the method, OPTIONS apart
AdminRouteAnyMethod(path, method) ==
  IF method = "OPTIONS" THEN [op |-> "none", status |-> 200]
  ELSE IF path \in {"/healthz", "/metrics"} THEN [op |-> "none", status |-> 200]
  ELSE IF path = "/requests/clear" THEN [op |-> "clr", status |-> 200]
  ELSE IF method # "GET" THEN [op |-> "none", status |-> 405]
  ELSE IF path = "/requests" THEN [op |-> "get", status |-> 200]
  ELSE [op |-> "st", status |-> 200]

\* the admin handlers, lines 356-492: the store operation a request leads
\* to ("none": it is answered without the store) and the status answered;
\* OPTIONS is answered 200 by every handler, a method other than the
\* handler's own 405, /healthz and /metrics answer any method
AdminRoute(path, method) ==
  IF method = "OPTIONS" THEN [op |-> "none", status |-> 200]
  ELSE IF path \in {"/healthz", "/metrics"} THEN [op |-> "none", status |-> 200]
  ELSE IF path = "/requests/clear"
       THEN IF method = "POST" THEN [op |-> "clr", status |-> 200]
                               ELSE [op |-> "none", status |-> 405]
  ELSE IF method # "GET" THEN [op |-> "none", status |-> 405]
  ELSE IF path = "/requests" THEN [op |-> "get", status |-> 200]
  ELSE [op |-> "st", status |-> 200]

\* the admin requests of this run that lead to the store operation op
Routed(op) == {q \in lim.admin : AdminRoute(q.path, q.method).op = op}

\* the result of an admin task that has received request q
Asked(q) == [NoResult EXCEPT !.path = q.path, !.method = q.method]

\* an admin task may call; the tasks are taken into use in order
AdminIdle(a) ==
  /\ pc[a] = "idle"
  /\ adminOps < lim.adminOps
  /\ \A b \in Admins : b < a => (pc[b] # "idle" \/ result[b].op # "")

\* an admin request that is answered without the store: OPTIONS, a method
\* the handler refuses, /healthz, /metrics
AdminServe(a) ==
  /\ AdminIdle(a)
  /\ \E q \in Routed("none") :
       result' = [result EXCEPT ![a] =
                    [Asked(q) EXCEPT !.status = AdminRoute(q.path, q.method).status]]
  /\ heap' = Collect(heap, records, result')
  /\ adminOps' = adminOps + 1
  /\ UNCHANGED <<lim, historySize, tunnel, maxSize, records, wmu, readers, clock, pc, req, rec, out,
                 client, nextReq, inserted, clearedAt>>

\* mutant: GetRecords copies without taking the read lock
GetRecordsEnterUnlocked(a) ==
  /\ wmu' = wmu
  /\ readers' = readers
  /\ pc' = [pc EXCEPT ![a] = "get_copy"]

\* GetRecords, line 77: RLock()
GetRecordsEnter(a) == RLock(a, "get_copy", "get_rwait")

\* handleRequestHistory, line 421, GetRecordsJSON, line 88, GetRecords, line
\* 77: GET /requests arrives and RLock() is called
GetRecordsRLock(a) ==
  /\ AdminIdle(a)
  /\ GetRecordsEnter(a)
  /\ \E q \in Routed("get") : result' = [result EXCEPT ![a] = Asked(q)]
  /\ heap' = Collect(heap, records, result')
  /\ adminOps' = adminOps + 1
  /\ UNCHANGED <<lim, historySize, tunnel, maxSize, records, clock, req, rec, out, client, nextReq,
                 inserted, clearedAt>>

\* GetRecordsJSON, lines 87-93: the slice GetRecords returned and its length
\* as "total"
GetRecordsJSON(hp, recs, id) ==
  LET got == GetRecords(hp, recs, id)
  IN [heap |-> got.heap, records |-> got.result, total |-> got.result.len]

\* GetRecords, lines 78-83, GetRecordsJSON, lines 87-93, and
\* handleRequestHistory, lines 427-431: the copy is made, the read lock
\* released, and records and total are answered with 200; `seen` remembers
\* what the store held
GetRecordsCopy(a) ==
  /\ pc[a] = "get_copy"
  /\ LET got == GetRecordsJSON(heap, records, FreshArr(heap))
         res == [result EXCEPT ![a].op = "get", ![a].status = 200,
                               ![a].snap = got.records, ![a].total = got.total,
                               ![a].seen = Elems(heap, records), ![a].log = Log]
     IN /\ result' = res
        /\ heap' = Collect(got.heap, records, res)
  /\ RUnlock(a, "idle")
  /\ UNCHANGED <<lim, historySize, tunnel, maxSize, records, clock, req, rec, out, client, nextReq,
                 adminOps, inserted, clearedAt>>

\* mutant: GetStats computes without taking the read lock
GetStatsEnterUnlocked(a) ==
  /\ wmu' = wmu
  /\ readers' = readers
  /\ pc' = [pc EXCEPT ![a] = "st_compute"]

\* GetStats, line 104: RLock()
GetStatsEnter(a) == RLock(a, "st_compute", "st_rwait")

\* handleRequestStats, line 452, and GetStats, line 104: GET /requests/stats
\* arrives and RLock() is called
GetStatsRLock(a) ==
  /\ AdminIdle(a)
  /\ GetStatsEnter(a)
  /\ \E q \in Routed("st") : result' = [result EXCEPT ![a] = Asked(q)]
  /\ heap' = Collect(heap, records, result')
  /\ adminOps' = adminOps + 1
  /\ UNCHANGED <<lim, historySize, tunnel, maxSize, records, clock, req, rec, out, client, nextReq,
                 inserted, clearedAt>>

\* GetStats, lines 105-148, and handleRequestStats, lines 453-463: the
\* statistics are computed, the read lock released, and the statistics
\* answered with 200
GetStatsCompute(a) ==
  /\ pc[a] = "st_compute"
  /\ result' = [result EXCEPT ![a].op = "st", ![a].status = 200,
                              ![a].stats = GetStats(Elems(heap, records)),
                              ![a].seen = Elems(heap, records), ![a].log = Log]
  /\ RUnlock(a, "idle")
  /\ UNCHANGED <<lim, historySize, tunnel, maxSize, records, heap, clock, req, rec, out, client,
                 nextReq, adminOps, inserted, clearedAt>>

\* handleClearHistory, line 485, and Clear, line 97: POST /requests/clear
\* arrives and Lock() is called
ClearLock(a) ==
  /\ AdminIdle(a)
  /\ LockCall(a, "clr_wait")
  /\ \E q \in Routed("clr") : result' = [result EXCEPT ![a] = Asked(q)]
  /\ heap' = Collect(heap, records, result')
  /\ adminOps' = adminOps + 1
  /\ UNCHANGED <<lim, historySize, tunnel, maxSize, records, clock, req, rec, out, client, nextReq,
                 inserted, clearedAt>>

\* Clear, lines 97-99: the lock is acquired and the slice cut to length 0
ClearCut(a) ==
  /\ pc[a] = "clr_wait"
  /\ CanEnter(a)
  /\ records' = ClearSlice(records)
  /\ clearedAt' = Len(inserted)
  /\ pc' = [pc EXCEPT ![a] = "clr_unlock"]
  /\ UNCHANGED <<lim, historySize, tunnel, maxSize, heap, wmu, readers, clock, req, rec, out,
                 client, result, nextReq, adminOps, inserted>>

\* Clear, line 98 (deferred), and handleClearHistory, lines 487-491:
\* Unlock(), and the request is answered 200
ClearUnlock(a) ==
  /\ pc[a] = "clr_unlock"
  /\ Unlock(a, "idle")
  /\ result' = [result EXCEPT ![a].status = 200]
  /\ UNCHANGED <<lim, historySize, tunnel, maxSize, records, heap, clock, req, rec, out, client,
                 nextReq, adminOps, inserted, clearedAt>>

\* ------------------------------------------------- a caller of GetRecords
\* a caller assigns to a field of element i of the slice it was returned:
\* the element is its own copy of the struct (copy, line 82)
EditField(hp, s, i) == [hp EXCEPT ![s.arr][i].method = "EDITED"]

\* a map[string]string after m["X-Edited"] = "1"
PutEntry(m) == [k \in DOMAIN m \cup {"X-Edited"} |-> IF k = "X-Edited" THEN "1" ELSE m[k]]

\* a caller writes to a header map of the record with the given id: a copy
\* of a RequestRecord (lines 57, 67, 82) copies the map fields (lines 15 and 18)
\* as references, so every copy of that record has the one map
EditHeaders(r, id, which) ==
  IF r.id # id THEN r
  ELSE IF which = "request" THEN [r EXCEPT !.reqHdrs = PutEntry(@)]
  ELSE [r EXCEPT !.respHdrs = PutEntry(@)]

\* a caller that was returned a slice by GetRecords changes one of its
\* records: a field, or an entry of its request or response headers (the
\* response headers of a record that has them: a nil map cannot be written)
ChangeSnapshot(a) ==
  /\ lim.edits
  /\ pc[a] = "idle"
  /\ result[a].op = "get"
  /\ \E i \in 1..result[a].snap.len, which \in {"field", "request", "response"} :
       LET r == heap[result[a].snap.arr][i]
       IN /\ which = "response" => r.status # 0
          /\ IF which = "field"
             THEN /\ heap' = EditField(heap, result[a].snap, i)
                  /\ rec' = rec
             ELSE /\ heap' = [k \in DOMAIN heap |->
                               [j \in DOMAIN heap[k] |-> EditHeaders(heap[k][j], r.id, which)]]
                  /\ rec' = [t \in Reqs |-> EditHeaders(rec[t], r.id, which)]
  /\ result' = [result EXCEPT ![a].op = "edit"]
  /\ UNCHANGED <<lim, historySize, tunnel, maxSize, records, wmu, readers, clock, pc, req, out,
                 client, nextReq, adminOps, inserted, clearedAt>>

\* ----------------------------------------------------------- specification
\* New, lines 40-53, with a configured history size of this run
InitProgram ==
  /\ historySize \in lim.sizes
  /\ maxSize = New(historySize).maxSize
  /\ records = New(historySize).records
  /\ heap = New(historySize).heap
  /\ wmu = NoTask
  /\ readers = {}
  /\ clock = 1
  /\ pc = [t \in Tasks |-> "idle"]
  /\ req = [t \in Reqs |-> NoReq]
  /\ rec = [t \in Reqs |-> NoRecord]
  /\ out = [t \in Reqs |-> NoOut]
  /\ client = [t \in Reqs |-> NoClient]
  /\ result = [a \in Admins |-> NoResult]
  /\ nextReq = 0
  /\ adminOps = 0
  /\ inserted = <<>>
  /\ clearedAt = 0
  /\ tunnel = [t \in Reqs |-> NoTunnel]

\* a run of MaxReq requests, failing upstream or not, with the store queried
\* and cleared meanwhile
StoreRun ==
  [reqs |-> MaxReq, concurrent |-> MaxConcurrent, adminOps |-> MaxAdminOps,
   clock |-> 1, headers |-> {NoHeaders}, responses |-> {PlainResponse}, faults |-> {"upstream"},
   bodies |-> {""}, direct |-> FALSE, tunnels |-> {},
   admin |-> StoreRequests, sizes |-> 1..MaxSize,
   reads |-> {"full"}, edits |-> FALSE]

\* a run of PipeReqs requests drawn from every input and every fault, with a
\* running clock
PipeRun ==
  [reqs |-> PipeReqs, concurrent |-> MaxConcurrent, adminOps |-> 0,
   clock |-> MaxClock, headers |-> PlainHeaders(DestHeaders), responses |-> {PlainResponse},
   faults |-> Faults, bodies |-> {""}, direct |-> FALSE, tunnels |-> {},
   admin |-> StoreRequests, sizes |-> 1..MaxSize,
   reads |-> {"full"}, edits |-> FALSE]

\* a run of concurrent successful requests with a running clock and one
\* query of the store
TimedRun ==
  [reqs |-> MaxConcurrent, concurrent |-> MaxConcurrent, adminOps |-> 1,
   clock |-> MaxClock, headers |-> {NoHeaders}, responses |-> {PlainResponse}, faults |-> {},
   bodies |-> {""}, direct |-> FALSE, tunnels |-> {},
   admin |-> StoreRequests, sizes |-> 1..MaxSize,
   reads |-> {"full"}, edits |-> FALSE]

\* a run of HeaderReqs requests carrying any header set, with a frozen clock
HeaderRun ==
  [reqs |-> HeaderReqs, concurrent |-> 1, adminOps |-> 0, clock |-> 1,
   headers |-> AllHeaders, responses |-> {PlainResponse}, faults |-> {"upstream"},
   bodies |-> Bodies, direct |-> FALSE, tunnels |-> {},
   admin |-> StoreRequests, sizes |-> 1..MaxSize,
   reads |-> {"full"}, edits |-> FALSE]

\* a run of RelayReqs requests answered by any upstream response, read and
\* relayed with or without failure, with a frozen clock
RelayRun ==
  [reqs |-> RelayReqs, concurrent |-> 1, adminOps |-> 0, clock |-> 1,
   headers |-> {NoHeaders}, responses |-> Responses, faults |-> {"read", "copy"},
   bodies |-> Bodies, direct |-> FALSE, tunnels |-> {},
   admin |-> StoreRequests, sizes |-> 1..MaxSize,
   reads |-> {"full"}, edits |-> FALSE]

\* a run of DirectReqs AddRecord calls with records the caller filled in,
\* one after the other, and one query of the store
DirectRun ==
  [reqs |-> DirectReqs, concurrent |-> 1, adminOps |-> 1, clock |-> 1,
   headers |-> {NoHeaders}, responses |-> {PlainResponse}, faults |-> {},
   bodies |-> {""}, direct |-> TRUE, tunnels |-> {},
   admin |-> StoreRequests, sizes |-> 1..MaxSize,
   reads |-> {"full"}, edits |-> FALSE]

\* a run of TunnelReqs requests, CONNECTs of every outcome mixed with
\* forwarded requests, with a frozen clock
TunnelRun ==
  [reqs |-> TunnelReqs, concurrent |-> MaxConcurrent, adminOps |-> 0, clock |-> 1,
   headers |-> {NoHeaders}, responses |-> {PlainResponse}, faults |-> {},
   bodies |-> {""}, direct |-> FALSE, tunnels |-> [dial : Dials, hijack : Hijacks],
   admin |-> StoreRequests, sizes |-> 1..MaxSize,
   reads |-> {"full"}, edits |-> FALSE]

\* a run of AdminReqs successful requests, one after the other, with admin
\* requests of every path and method, with a frozen clock
AdminRun ==
  [reqs |-> AdminReqs, concurrent |-> 1, adminOps |-> MaxAdminOps, clock |-> 1,
   headers |-> {NoHeaders}, responses |-> {PlainResponse}, faults |-> {},
   bodies |-> {""}, direct |-> FALSE, tunnels |-> {},
   admin |-> AdminRequests, sizes |-> 1..MaxSize,
   reads |-> {"full"}, edits |-> FALSE]

\* a run of DefaultReqs requests, failing upstream or not, one after the
\* other, with a history size of zero or less configured and the store
\* queried meanwhile
DefaultRun ==
  [reqs |-> DefaultReqs, concurrent |-> 1, adminOps |-> 1, clock |-> 1,
   headers |-> {NoHeaders}, responses |-> {PlainResponse}, faults |-> {"upstream"},
   bodies |-> {""}, direct |-> FALSE, tunnels |-> {},
   admin |-> StoreRequests, sizes |-> {-1, 0},
   reads |-> {"full"}, edits |-> FALSE]

\* a run of StampReqs requests, one after the other, with a malformed
\* destination or not, failing upstream or not, and a clock that runs for
\* more than a millisecond
StampRun ==
  [reqs |-> StampReqs, concurrent |-> 1, adminOps |-> 0, clock |-> StampClock,
   headers |-> PlainHeaders({"", "%zz"}), responses |-> {PlainResponse},
   faults |-> {"upstream"}, bodies |-> {""}, direct |-> FALSE, tunnels |-> {},
   admin |-> StoreRequests, sizes |-> {MaxSize},
   reads |-> {"full"}, edits |-> FALSE]

\* a run of CaptureReqs requests with any body, read in any way, failing
\* upstream or not, with a frozen clock
CaptureRun ==
  [reqs |-> CaptureReqs, concurrent |-> 1, adminOps |-> 0, clock |-> 1,
   headers |-> {NoHeaders}, responses |-> {PlainResponse}, faults |-> {"upstream"},
   bodies |-> Bodies, direct |-> FALSE, tunnels |-> {},
   admin |-> StoreRequests, sizes |-> {MaxSize},
   reads |-> ReadKinds, edits |-> FALSE]

\* a run of SnapshotReqs successful requests, one after the other, and one
\* call of GetRecords whose caller changes what it was returned
SnapshotRun ==
  [reqs |-> SnapshotReqs, concurrent |-> 1, adminOps |-> 1, clock |-> 1,
   headers |-> {NoHeaders}, responses |-> {PlainResponse}, faults |-> {},
   bodies |-> {""}, direct |-> FALSE, tunnels |-> {},
   admin |-> {[path |-> "/requests", method |-> "GET"]}, sizes |-> {MaxSize},
   reads |-> {"full"}, edits |-> TRUE]

\* a run of LockReqs concurrent successful requests with the store queried
\* and cleared meanwhile
LockRun ==
  [reqs |-> LockReqs, concurrent |-> MaxConcurrent, adminOps |-> MaxAdminOps,
   clock |-> 1, headers |-> {NoHeaders}, responses |-> {PlainResponse}, faults |-> {},
   bodies |-> {""}, direct |-> FALSE, tunnels |-> {},
   admin |-> StoreRequests, sizes |-> {MaxSize},
   reads |-> {"full"}, edits |-> FALSE]

\* the runs the program is checked in
Workloads ==
  {StoreRun, PipeRun, TimedRun, HeaderRun, RelayRun, DirectRun, TunnelRun, AdminRun,
   DefaultRun, StampRun, CaptureRun, SnapshotRun, LockRun}

\* the runs whose progress is checked
FairWorkloads == {LockRun, TunnelRun, DirectRun, AdminRun, SnapshotRun}

Init ==
  /\ lim \in Workloads
  /\ InitProgram

Next ==
  \/ \E t \in Reqs : Receive(t)
  \/ \E t \in Reqs : Upstream(t)
  \/ \E t \in Reqs : AddRecordCall(t)
  \/ \E t \in Reqs : Connect(t)
  \/ \E t \in Reqs : CopyDownEnds(t)
  \/ \E t \in Reqs : CopyUpEnds(t)
  \/ \E t \in Reqs : AddRecordLock(t)
  \/ \E t \in Reqs : AddRecordInsert(t)
  \/ \E t \in Reqs : AddRecordTrim(t)
  \/ \E t \in Reqs : Return(t)
  \/ \E a \in Admins : AdminServe(a)
  \/ \E a \in Admins : GetRecordsRLock(a)
  \/ \E a \in Admins : GetRecordsCopy(a)
  \/ \E a \in Admins : GetStatsRLock(a)
  \/ \E a \in Admins : GetStatsCompute(a)
  \/ \E a \in Admins : ClearLock(a)
  \/ \E a \in Admins : ClearCut(a)
  \/ \E a \in Admins : ClearUnlock(a)
  \/ \E a \in Admins : ChangeSnapshot(a)

Spec == Init /\ [][Next]_vars

\* a task's next step inside AddRecord: Lock(), the insertion once the lock
\* is acquired, the cut and the deferred Unlock()
AddRecordStep(t) == AddRecordLock(t) \/ AddRecordInsert(t) \/ AddRecordTrim(t)

\* a task's next step inside GetRecords, GetStats or Clear once it has
\* called RLock() or Lock()
StoreStep(a) ==
  GetRecordsCopy(a) \/ GetStatsCompute(a) \/ ClearCut(a) \/ ClearUnlock(a)

\* the goroutine's io.Copy(dest, clientConn), lines 343-347, reading from a
\* connection that has been closed: the read fails at once
CopyUpFails(t) == tunnel[t].conn = "closed" /\ CopyUpEnds(t)

\* the Go scheduler runs every goroutine that can run: a task inside a store
\* operation takes its next step unless the lock makes it wait, and a read
\* from a closed connection returns; requests, upstream answers and the ends
\* of open connections come when the environment sends them
Fairness ==
  /\ \A t \in Reqs : WF_vars(AddRecordStep(t)) /\ WF_vars(CopyUpFails(t))
  /\ \A a \in Admins : WF_vars(StoreStep(a))

FairInit ==
  /\ lim \in FairWorkloads
  /\ InitProgram

FairSpec == FairInit /\ [][Next]_vars /\ Fairness

\* ------------------------------------------------------------------ views
\* what the store holds, most recent first
Stored == Elems(heap, records)

\* admin tasks holding a slice GetRecords returned
Snaps == {a \in Admins : result[a].op = "get"}

\* what a returned slice holds now
SnapOf(a) == Elems(heap, result[a].snap)

Ids(rs) == [i \in 1..Len(rs) |-> rs[i].id]

\* the n last ids of lg, last first
Newest(n, lg) == [i \in 1..n |-> lg[Len(lg) - i + 1]]

\* place of an id in the insertion order
Pos(id) == CHOOSE i \in 1..Len(inserted) : inserted[i] = id

\* number of AddRecord insertions made for request t
Appends(t) == Cardinality({i \in 1..Len(inserted) : inserted[i] = t})

NoWriterInside == \A t \in Tasks : pc[t] \notin WriteInside

\* requests received on the forwarding path
Proxied == {t \in Reqs : req[t].method \notin {"", "OPTIONS", "CONNECT"}}

AllReturned == \A t \in Reqs : pc[t] \in {"idle", "returned"}

\* ----------------------------------------------------------------- claims
CapacityOK(rs, lg) ==
  /\ Len(rs) <= maxSize
  /\ Len(lg) >= maxSize => Ids(rs) = Newest(maxSize, lg)

\* C1: every slice GetRecords returned, and the store whenever no writer is
\* inside, holds at most maxSize records; once maxSize or more records were
\* inserted since the last Clear it holds exactly the maxSize most recent
C1_Capacity ==
  /\ \A a \in Snaps : CapacityOK(SnapOf(a), result[a].log)
  /\ NoWriterInside => CapacityOK(Stored, Log)

\* a slice returned after maxSize + 1 insertions: the oldest record is gone
C1_Witness ==
  \E a \in Snaps :
    /\ Len(result[a].log) = maxSize + 1
    /\ Len(SnapOf(a)) = maxSize
    /\ \A i \in 1..maxSize : SnapOf(a)[i].id # result[a].log[1]

MostRecentFirst(rs, lg) ==
  /\ lg # <<>> => (rs # <<>> /\ rs[1].id = lg[Len(lg)])
  /\ \A i, j \in 1..Len(rs) : i < j => Pos(rs[i].id) > Pos(rs[j].id)

\* C2: in the store and in every returned slice the first record is the one
\* inserted last, and a record inserted later stands before one inserted
\* earlier, whatever their ids (arrival order) and timestamps
C2_Order ==
  /\ \A a \in Snaps : MostRecentFirst(SnapOf(a), result[a].log)
  /\ MostRecentFirst(Stored, Log)

\* a returned slice whose first record arrived earlier, and was stamped
\* earlier, than its second
C2_Witness ==
  \E a \in Snaps :
    /\ Len(SnapOf(a)) = 2
    /\ SnapOf(a)[1].id < SnapOf(a)[2].id
    /\ SnapOf(a)[1].pStart < SnapOf(a)[2].pStart

\* C3: no request is inserted twice, and a handler of a request that is
\* neither OPTIONS nor CONNECT has inserted exactly one record when it is done
C3_OneAppend ==
  \A t \in Reqs :
    /\ Appends(t) <= 1
    /\ (pc[t] \in {"done", "returned"} /\ t \in Proxied) => Appends(t) = 1

\* two finished handlers, one on the body-read failure path and one on the
\* relay failure path, each with its one record
C3_Witness ==
  \E t, u \in Reqs :
    /\ pc[t] = "done" /\ out[t].site = 254 /\ Appends(t) = 1
    /\ pc[u] = "done" /\ out[u].site = 300 /\ client[u].body = "cut" /\ Appends(u) = 1

\* C4: once every handler has returned, with no record cleared and a
\* capacity of at least the number of forwarded requests, the store holds
\* exactly one record per forwarded request
C4_Concurrent ==
  (AllReturned /\ NoWriterInside /\ clearedAt = 0 /\ Cardinality(Proxied) <= maxSize)
    => /\ Len(Stored) = Cardinality(Proxied)
       /\ {Stored[i].id : i \in 1..Len(Stored)} = Proxied

\* two overlapping requests, one failed and one successful, both returned;
\* the one that arrived first was inserted last
C4_Witness ==
  /\ AllReturned /\ NoWriterInside /\ clearedAt = 0
  /\ Cardinality(Proxied) = 2 /\ maxSize = 2
  /\ Len(Stored) = 2
  /\ Stored[1].id < Stored[2].id
  /\ Stored[1].success # Stored[2].success

\* C5: a writer inside AddRecord or Clear holds the lock alone: no reader
\* holds it and no other task is inside any of the four operations; a task
\* inside GetRecords or GetStats holds the read lock
C5_Exclusive ==
  /\ \A t \in Tasks : pc[t] \in WriteInside =>
       /\ wmu = t
       /\ readers = {}
       /\ \A u \in Tasks \ {t} : pc[u] \notin (WriteInside \cup ReadInside)
  /\ \A a \in Tasks : pc[a] \in ReadInside => (a \in readers /\ Len(Stored) <= maxSize)

\* a handler inside AddRecord, between insertion and cut, with the store one
\* over its capacity, while a reader is kept waiting
C5_Witness ==
  \E t \in Reqs, a \in Admins :
    /\ pc[t] = "add_trim"
    /\ records.len = maxSize + 1
    /\ pc[a] \in ReadWaits

\* C6: a slice GetRecords returned keeps holding what the store held when it
\* was copied, whatever is inserted, evicted or cleared afterwards
C6_SnapshotStable == \A a \in Snaps : SnapOf(a) = result[a].seen

\* a full slice returned before an insertion that evicted its oldest record
C6_Witness ==
  \E a \in Snaps :
    /\ Len(SnapOf(a)) = maxSize
    /\ NoWriterInside
    /\ Len(Stored) = maxSize
    /\ Len(Log) = Len(result[a].log) + 1
    /\ Ids(Stored) # Ids(SnapOf(a))

\* the sequence s, last element first
RECURSIVE Reverse(_)
Reverse(s) == IF s = <<>> THEN <<>> ELSE Reverse(Tail(s)) \o <<Head(s)>>

\* C7: the step of Clear leaves the store empty, whatever it held, and the
\* capacity as it was; an empty store stays empty in every step that inserts
\* nothing; and while no more than maxSize records were inserted since the
\* last Clear the store holds exactly those
C7_Clear ==
  [][/\ \A a \in Admins : (pc[a] = "clr_wait" /\ pc'[a] = "clr_unlock") =>
          (Len(Stored') = 0 /\ maxSize' = maxSize)
     /\ (Len(Stored) = 0 /\ inserted' = inserted) => Len(Stored') = 0
     /\ (NoWriterInside' /\ Len(Log') <= maxSize') => Ids(Stored') = Reverse(Log')
    ]_vars

\* a store cleared while it held records, with one record inserted since
C7_Witness ==
  /\ clearedAt > 0
  /\ Len(Log) = 1
  /\ NoWriterInside
  /\ Ids(Stored) = Log

\* the record AddRecord inserted for request t, if the store still holds it
HeldOf(t) == {i \in 1..Len(Stored) : Stored[i].id = t}

FailureSites == {192, 204, 215, 239, 254}

\* C8: a finished handler on a failure path has sent 400 for an unparsable
\* destination, 500 for a failed construction, 502 for a failed upstream
\* call and 500 for a failed body read; its one record is failed, carries an
\* error text and a proxy-end stamp; before the upstream step no call was made
C8_Failures ==
  \A t \in Reqs : (pc[t] = "done" /\ out[t].site \in FailureSites) =>
    /\ out[t].site \in {192, 204} => client[t].status = 400
    /\ out[t].site = 215 => client[t].status = 500
    /\ out[t].site = 239 => client[t].status = 502
    /\ out[t].site = 254 => client[t].status = 500
    /\ (req[t].dest # "" /\ ParseURL(req[t].dest).err) => out[t].site = 192
    /\ Appends(t) = 1
    /\ rec[t].success = FALSE /\ rec[t].error # "" /\ rec[t].pEnd # 0
    /\ \A i \in HeldOf(t) : Stored[i] = Metrics(rec[t])
    /\ out[t].site \in {192, 204, 215} => out[t].calls = 0
    /\ out[t].site \in {239, 254} => out[t].calls = 1

\* two finished handlers: one answered 400 for an unparsable destination
\* header, the other 502 for a failed upstream call, both records held
C8_Witness ==
  \E t, u \in Reqs :
    /\ pc[t] = "done" /\ out[t].site = 192 /\ client[t].status = 400
    /\ pc[u] = "done" /\ out[u].site = 239 /\ client[u].status = 502
    /\ HeldOf(t) # {} /\ HeldOf(u) # {}

Consistent(r) == r.error # "" => ~r.success

\* C9: no record in the store, or in a returned slice, has an error text
\* together with success = TRUE
C9_ErrorMeansFailed ==
  /\ \A i \in 1..Len(Stored) : Consistent(Stored[i])
  /\ \A a \in Snaps : \A i \in 1..Len(SnapOf(a)) : Consistent(SnapOf(a)[i])

\* a held record of a relay failure: upstream status, error text, failed
C9_Witness ==
  \E i \in 1..Len(Stored) :
    /\ Stored[i].status = 200
    /\ Stored[i].error = "Failed to copy response body"
    /\ ~Stored[i].success

\* C10: once the outbound call is made, it goes to the destination header's
\* URL and the record's URL is the header value when the header is non-empty;
\* otherwise it goes to the request's own URL, which is the record's URL
C10_Destination ==
  \A t \in Reqs : out[t].calls > 0 =>
    /\ req[t].dest # "" =>
         /\ out[t].sent = ParseURL(req[t].dest)
         /\ rec[t].url = req[t].dest
    /\ req[t].dest = "" =>
         /\ out[t].sent = ParseURL(req[t].url)
         /\ rec[t].url = req[t].url
    /\ \A i \in HeldOf(t) : Stored[i].url = rec[t].url

\* a finished request that carried a destination header differing from its
\* own URL: the call went to the header's URL and the held record names it
C10_Witness ==
  \E t \in Reqs :
    /\ pc[t] = "done" /\ out[t].calls = 1
    /\ req[t].dest = "HTTP://dest/x"
    /\ out[t].sent # ParseURL(req[t].url)
    /\ \E i \in HeldOf(t) : Stored[i].url = "HTTP://dest/x"

\* C11: the outbound request never carries the control header, whatever its
\* value, and carries every other header of the request with all its values
\* in order
C11_ControlNotForwarded ==
  \A t \in Reqs :
    /\ Control \notin DOMAIN out[t].hdrs
    /\ out[t].calls > 0 =>
         /\ DOMAIN out[t].hdrs = DOMAIN req[t].hdrs \ {Control}
         /\ \A k \in DOMAIN out[t].hdrs : out[t].hdrs[k] = req[t].hdrs[k]

\* an outbound call was made for a request that carried the control header
\* and a two-valued Accept header
C11_Witness ==
  \E t \in Reqs :
    /\ out[t].calls > 0
    /\ Control \in DOMAIN req[t].hdrs
    /\ "Accept" \in DOMAIN req[t].hdrs
    /\ out[t].hdrs["Accept"] = <<"a", "b">>

\* requests whose upstream response was read and relayed without error
Relayed == {t \in Reqs : out[t].site = 300 /\ client[t].body = "full"}

\* the record of a relayed request: the request's method, the upstream's
\* status, the body's length, success; one insertion once the handler is done
RelayRecorded(t) ==
  /\ rec[t].method = req[t].method
  /\ rec[t].status = out[t].status
  /\ rec[t].respSize = Len(out[t].body)
  /\ rec[t].success /\ rec[t].error = ""
  /\ pc[t] = "done" => Appends(t) = 1
  /\ \A i \in HeldOf(t) : Stored[i] = Metrics(rec[t])

\* C12 as stated: a relayed request's client has the upstream's status, every
\* value of every upstream header, and the upstream's body; its one record
\* has the method, the upstream status, the body length and success
C12_AsStated ==
  \A t \in Relayed :
    /\ client[t].status = out[t].status
    /\ \A k \in DOMAIN out[t].rhdrs : \A i \in 1..Len(out[t].rhdrs[k]) :
         \E j \in 1..Len(Values(client[t].hdrs, k)) :
           client[t].hdrs[k][j] = out[t].rhdrs[k][i]
    /\ client[t].data = out[t].body
    /\ RelayRecorded(t)

\* C12, amended: as stated, except that of an upstream header with one of
\* the six CORS names the client has the last value alone, while a header of
\* any other name arrives with all its values in order
C12_Relay ==
  \A t \in Relayed :
    /\ client[t].status = out[t].status
    /\ \A k \in DOMAIN out[t].rhdrs :
         Values(client[t].hdrs, k) =
           IF k \in CorsNames THEN <<out[t].rhdrs[k][Len(out[t].rhdrs[k])]>>
                              ELSE out[t].rhdrs[k]
    /\ client[t].data = out[t].body
    /\ RelayRecorded(t)

\* a finished handler that relayed a 404 with a two-valued X-Test header and
\* a body of two bytes, its record held by the store
C12_Witness ==
  \E t \in Relayed :
    /\ pc[t] = "done"
    /\ client[t].status = 404
    /\ Values(client[t].hdrs, "X-Test") = <<"v", "w">>
    /\ client[t].data = "ok"
    /\ \E i \in HeldOf(t) : Stored[i].status = 404 /\ Stored[i].respSize = 2

\* the durations of a record in microseconds, from its four timestamps
TotalUs(r) == Sub(r.pEnd, r.pStart)
UpstreamUs(r) == Sub(r.uEnd, r.uStart)
OverheadUs(r) == TotalUs(r) - UpstreamUs(r)

\* C13 as stated: every record the store holds has total duration =
\* proxy-end - proxy-start, upstream latency = upstream-end - upstream-start
\* and proxy overhead = total - upstream latency, in microseconds, whatever
\* the caller had put in those fields
C13_AsStated ==
  \A i \in 1..Len(Stored) :
    /\ Stored[i].total = TotalUs(Stored[i])
    /\ Stored[i].upstream = UpstreamUs(Stored[i])
    /\ Stored[i].overhead = OverheadUs(Stored[i])

\* admin tasks holding statistics of a non-empty store
StatsOf == {a \in Admins : result[a].op = "st" /\ result[a].seen # <<>>}

\* C14 as stated: each average GetStats returned for a non-empty store is the
\* sum of the records' durations in microseconds divided by their number,
\* truncated
C14_AsStated ==
  \A a \in StatsOf :
    LET rs == result[a].seen
        n == Len(rs)
    IN /\ result[a].stats.avg_duration_ms =
            Quot(SumSeq([i \in 1..n |-> TotalUs(rs[i])]), n)
       /\ result[a].stats.avg_upstream_latency_ms =
            Quot(SumSeq([i \in 1..n |-> UpstreamUs(rs[i])]), n)
       /\ result[a].stats.avg_proxy_overhead_ms =
            Quot(SumSeq([i \in 1..n |-> OverheadUs(rs[i])]), n)

\* the sum of the values of a map of counts
RECURSIVE SumCounts(_)
SumCounts(f) ==
  IF DOMAIN f = {} THEN 0
  ELSE LET k == CHOOSE j \in DOMAIN f : TRUE
       IN f[k] + SumCounts([j \in DOMAIN f \ {k} |-> f[j]])

\* C15: statistics of a non-empty store count exactly the records it held
\* then (the newest up to maxSize inserted since the last Clear): every
\* record is a success or an error, never both; the status and method
\* counts each sum to the total; the sizes are the sums of the records' sizes
C15_StatsConsistent ==
  \A a \in StatsOf :
    LET rs == result[a].seen
        n == Len(rs)
        st == result[a].stats
    IN /\ st.total_requests = n
       /\ n = IF Len(result[a].log) < maxSize THEN Len(result[a].log) ELSE maxSize
       /\ st.success_count = Cardinality({i \in 1..n : rs[i].success})
       /\ st.error_count = Cardinality({i \in 1..n : ~rs[i].success})
       /\ st.success_count + st.error_count = n
       /\ SumCounts(st.status_codes) = n
       /\ SumCounts(st.methods) = n
       /\ st.total_request_size = SumSeq([i \in 1..n |-> rs[i].reqSize])
       /\ st.total_response_size = SumSeq([i \in 1..n |-> rs[i].respSize])

\* statistics of a store holding a successful GET and a failed POST of
\* different sizes
C15_Witness ==
  \E a \in StatsOf :
    /\ result[a].stats.total_requests = 2
    /\ result[a].stats.success_count = 1 /\ result[a].stats.error_count = 1
    /\ result[a].stats.total_request_size = 300
    /\ result[a].stats.total_response_size = 600
    /\ DOMAIN result[a].stats.status_codes = {200, 500}
    /\ DOMAIN result[a].stats.methods = {"GET", "POST"}

\* C16: statistics of an empty store are total_requests = 0 and nothing
\* else: no average is computed, so nothing is divided by the zero count
C16_EmptyStats ==
  \A a \in Admins : (result[a].op = "st" /\ result[a].seen = <<>>) =>
    /\ DOMAIN result[a].stats = {"total_requests"}
    /\ result[a].stats.total_requests = 0

\* statistics taken of a store that held records and was cleared
C16_Witness ==
  \E a \in Admins :
    /\ result[a].op = "st" /\ result[a].seen = <<>>
    /\ clearedAt > 0 /\ result[a].log = <<>>
    /\ result[a].stats.total_requests = 0

\* what an OPTIONS request on the proxy path has come to: answered or not
\* yet received, no record built or inserted, no outbound call
Preflight(t) ==
  /\ pc[t] \in {"done", "returned"}
  /\ Appends(t) = 0
  /\ rec[t] = NoRecord
  /\ out[t] = NoOut
  /\ pc[t] = "done" =>
       /\ client[t].status = 200
       /\ client[t].body = "" /\ client[t].data = ""
       /\ client[t].hdrs = CorsDefaults

\* C17: the step that handles an OPTIONS request answers 200 with the CORS
\* headers and no body, makes no outbound call, builds no record and leaves
\* the store as it was; no later step inserts a record for it
C17_Preflight ==
  [][\A t \in Reqs : req'[t].method = "OPTIONS" =>
        /\ Preflight(t)'
        /\ pc[t] = "idle" =>
             (records' = records /\ heap' = heap /\ inserted' = inserted)
    ]_vars

\* an OPTIONS request answered while the store holds a record
C17_Witness ==
  \E t \in Reqs :
    /\ req[t].method = "OPTIONS" /\ pc[t] = "done"
    /\ client[t].status = 200
    /\ Len(Stored) > 0

\* requests that came with the CONNECT method
Tunnels == {t \in Reqs : req[t].method = "CONNECT"}

C19_DialFailure ==
  \A t \in Reqs : tunnel[t].dial = "failed" =>
    /\ pc[t] \in {"done", "returned"}
    /\ pc[t] = "done" => client[t].status = 503
    /\ tunnel[t].hijack = "" /\ tunnel[t].conn = "none" /\ tunnel[t].dest = "none"
    /\ tunnel[t].up = "none" /\ tunnel[t].down = "none"

\* a CONNECT answered 503 after its dial failed
C19_Witness ==
  \E t \in Tunnels :
    pc[t] = "done" /\ tunnel[t].dial = "failed" /\ client[t].status = 503

\* C20 as stated: a CONNECT whose dial succeeded and whose client connection
\* could not be taken over is answered 500, with no copy loop started
C20_AsStated ==
  \A t \in Reqs :
    (pc[t] = "done" /\ tunnel[t].dial = "ok"
       /\ tunnel[t].hijack \in {"unsupported", "failed"}) =>
      /\ client[t].status = 500
      /\ tunnel[t].up = "none" /\ tunnel[t].down = "none"

\* C21 as stated: a CONNECT's client has been written a 200 only once both
\* the dial and the takeover of the client connection have succeeded
C21_AsStated ==
  \A t \in Tunnels : client[t].status = 200 =>
    (tunnel[t].dial = "ok" /\ tunnel[t].hijack = "ok")

\* C22 as stated: once either copy loop of a tunnel has ended, the client
\* connection and the destination connection are both closed
C22_AsStated ==
  \A t \in Tunnels : (tunnel[t].up = "ended" \/ tunnel[t].down = "ended") =>
    (tunnel[t].conn = "closed" /\ tunnel[t].dest = "closed")

\* requests whose upstream response was read and whose relay to the client
\* broke off after the status and the headers
CutShort == {t \in Reqs : out[t].site = 300 /\ client[t].body = "cut"}

\* C23: a request whose relay broke off has one record, failed and with an
\* error text, that still has the upstream's status, headers (the first
\* value of each name), body and size; the client keeps the upstream's status
C23_CopyFailure ==
  \A t \in CutShort :
    /\ ~rec[t].success /\ rec[t].error # ""
    /\ rec[t].status = out[t].status
    /\ rec[t].respHdrs = ConvertHeaders(out[t].rhdrs)
    /\ rec[t].respBody = out[t].body
    /\ rec[t].respSize = Len(out[t].body)
    /\ client[t].status = out[t].status
    /\ Appends(t) <= 1
    /\ pc[t] = "done" => Appends(t) = 1
    /\ \A i \in HeldOf(t) : Stored[i] = Metrics(rec[t])

\* a finished handler whose relay of a 404 with headers and a body broke
\* off: the client has the 404, the store holds the failed record with the
\* response data
C23_Witness ==
  \E t \in CutShort :
    /\ pc[t] = "done" /\ client[t].status = 404
    /\ \E i \in HeldOf(t) :
         /\ ~Stored[i].success /\ Stored[i].error = "Failed to copy response body"
         /\ Stored[i].status = 404 /\ Stored[i].respBody = "ok"
         /\ Stored[i].respSize = 2
         /\ Stored[i].respHdrs = [k \in {"X-Test"} |-> "v"]

\* requests on the success path: the upstream response was read to its end
\* and its status written to the client
Answered == {t \in Reqs : out[t].site = 300}

\* C24: on the success path the proxy-end stamp is taken no earlier than
\* the end of the read of the upstream body, which the record holds in
\* full, and no later than the write of the status line, so the stored
\* total duration is at most the time from proxy-start to that write
C24_EndBeforeWrite ==
  \A t \in Answered :
    /\ rec[t].uEnd <= TimeOf(out[t].readAt)
    /\ TimeOf(out[t].readAt) <= rec[t].pEnd
    /\ rec[t].respBody = out[t].body /\ rec[t].respSize = Len(out[t].body)
    /\ rec[t].pEnd <= TimeOf(client[t].at)
    /\ \A i \in HeldOf(t) :
         /\ Stored[i].pEnd = rec[t].pEnd
         /\ Stored[i].total <= Milliseconds(Sub(TimeOf(client[t].at), rec[t].pStart))

\* a finished handler whose status line was written a tick after the
\* proxy-end stamp; the held record ends with the stamp, before the write
C24_Witness ==
  \E t \in Answered :
    /\ pc[t] = "done" /\ client[t].body = "full"
    /\ rec[t].uEnd = rec[t].pEnd
    /\ rec[t].pEnd < TimeOf(client[t].at)
    /\ \E i \in HeldOf(t) : Stored[i].pEnd < TimeOf(client[t].at)

\* C25 as stated: a forwarded request whose client has been sent a status
\* has its record in the History Store already
C25_AsStated ==
  \A t \in Proxied : client[t].status # 0 => Appends(t) = 1

\* C25, amended: the request body is captured before the destination is
\* resolved, the outbound call is made to the resolved target, and the
\* response is captured before it is sent; on the success path the record is
\* inserted only after the response has been streamed to the client, on a
\* failure path before the error status is sent
C25_Order ==
  \A t \in Proxied :
    /\ out[t].site \in {192, 204} =>
         (rec[t].reqSize = CaptureRequestBody(req[t].read).size /\ out[t].target.err /\ out[t].calls = 0)
    /\ out[t].calls > 0 =>
         (rec[t].reqSize = CaptureRequestBody(req[t].read).size /\ ~out[t].target.err
            /\ out[t].sent = ParseURL(URLString(out[t].target)))
    /\ out[t].site = 300 =>
         /\ out[t].calls = 1 /\ out[t].readAt # 0
         /\ client[t].status = out[t].status /\ client[t].body \in {"full", "cut"}
         /\ pc[t] \in {"add_lock", "add_wait"} => Appends(t) = 0
         /\ pc[t] \in {"add_trim", "done"} => Appends(t) = 1
    /\ out[t].site \in FailureSites =>
         /\ client[t].status # 0 => (Appends(t) = 1 /\ pc[t] = "done")
         /\ pc[t] = "done" => client[t].status = ErrorStatus(out[t].site)

\* a handler that has streamed its response in full and not yet inserted
\* its record, beside a handler on a failure path that has inserted its
\* record and not yet sent its error status
C25_Witness ==
  \E t, u \in Proxied :
    /\ out[t].site = 300 /\ client[t].body = "full" /\ Appends(t) = 0
    /\ out[u].site \in FailureSites /\ Appends(u) = 1 /\ client[u].status = 0

\* C26: every answer to GET /requests is 200 with a total that is the
\* length of its records list; the list is what the store held at one
\* instant, most recent first, and holds no more than maxSize records,
\* whatever is being inserted or cleared meanwhile
C26_History ==
  \A a \in Snaps :
    /\ result[a].path = "/requests" /\ result[a].method = "GET"
    /\ result[a].status = 200
    /\ result[a].total = Len(SnapOf(a))
    /\ SnapOf(a) = result[a].seen
    /\ MostRecentFirst(SnapOf(a), result[a].log)
    /\ result[a].total <= maxSize
    /\ result[a].total = IF Len(result[a].log) < maxSize THEN Len(result[a].log)
                                                          ELSE maxSize

\* GET /requests was answered with a full list of two records while a
\* Clear had called Lock() and a handler was about to insert its record
C26_Witness ==
  \E a \in Snaps, b \in Admins, t \in Reqs :
    /\ result[a].total = 2 /\ maxSize = 2
    /\ SnapOf(a)[1].id > SnapOf(a)[2].id
    /\ pc[b] = "clr_wait"
    /\ pc[t] = "add_lock"

\* what the admin task a was asked
Clearing(a) == result[a].path = "/requests/clear" /\ result[a].method = "POST"

\* C27: a step of a request handler or of an admin handler changes what the
\* store holds only if it is a handler's insertion or the Clear of a POST
\* /requests/clear, which leaves the store empty and is answered 200 (a write
\* by a caller of GetRecords to a record it was returned is no admin
\* request); OPTIONS on any admin path is answered 200, and every admin
\* request other than POST /requests/clear is answered without calling Clear
C27_AdminFrame ==
  [][/\ Stored' # Stored =>
          \/ \E t \in Reqs : pc[t] \in {"add_wait", "add_trim"} /\ pc'[t] # pc[t]
          \/ \E a \in Admins : /\ Clearing(a) /\ pc[a] = "clr_wait"
                                /\ pc'[a] = "clr_unlock" /\ Stored' = <<>>
          \/ \E a \in Admins : result[a].op = "get" /\ result'[a].op = "edit"
     /\ \A a \in Admins :
          /\ pc'[a] \in {"clr_wait", "clr_unlock"} => Clearing(a)'
          /\ (result'[a].method = "OPTIONS" /\ result'[a] # result[a]) =>
               (result'[a].status = 200 /\ pc'[a] = "idle" /\ records' = records)
          /\ (Clearing(a)' /\ result'[a].status # 0) => result'[a].status = 200
          /\ (result'[a].path \in {"/healthz", "/metrics"} /\ result'[a] # result[a]) =>
               (result'[a].status = 200 /\ pc'[a] = "idle" /\ records' = records)
          /\ (result'[a].path = "/requests/clear" /\ result'[a].method = "GET") =>
               (result'[a].status = 405 /\ pc'[a] = "idle")
    ]_vars

\* a store that was cleared by POST /requests/clear, then took a record,
\* and still holds it after OPTIONS /requests/clear was answered 200
C27_Witness ==
  \E a \in Admins :
    /\ result[a].path = "/requests/clear" /\ result[a].method = "OPTIONS"
    /\ result[a].status = 200
    /\ clearedAt > 0
    /\ Len(Stored) = 1

\* C28: the store's capacity is positive: the configured history size when
\* that is positive, 1000 otherwise; no AddRecord call panics, the store's
\* length is never negative, and a finished request's record is held while
\* no more than the capacity were inserted and none cleared
C28_Capacity ==
  /\ maxSize > 0
  /\ maxSize = IF historySize > 0 THEN historySize ELSE 1000
  /\ records.len >= 0
  /\ \A t \in Reqs : pc[t] # "panicked"
  /\ \A t \in Reqs :
       (pc[t] = "done" /\ t \in Proxied /\ clearedAt = 0 /\ Len(inserted) <= maxSize)
         => HeldOf(t) # {}

\* with a history size of zero or less configured the capacity is 1000, and
\* the store holds the records of two finished requests
C28_Witness ==
  /\ historySize <= 0 /\ maxSize = 1000
  /\ Len(Stored) = 2
  /\ \E t \in Reqs : pc[t] = "done"

\* C29: in a response relayed to the client a CORS name the upstream
\* supplies has exactly one value, one of the upstream's (its last), not
\* the proxy's default; a CORS name the upstream does not supply has the
\* proxy's default, if there is one; any other name the upstream supplies
\* has all the upstream's values in order
C29_CorsReplaced ==
  \A t \in Answered :
    /\ \A k \in CorsNames \cap DOMAIN out[t].rhdrs :
         /\ Len(Values(client[t].hdrs, k)) = 1
         /\ \E i \in 1..Len(out[t].rhdrs[k]) : client[t].hdrs[k][1] = out[t].rhdrs[k][i]
         /\ client[t].hdrs[k][1] = out[t].rhdrs[k][Len(out[t].rhdrs[k])]
    /\ \A k \in CorsNames \ DOMAIN out[t].rhdrs :
         Values(client[t].hdrs, k) = Values(CorsDefaults, k)
    /\ \A k \in DOMAIN out[t].rhdrs \ CorsNames :
         Values(client[t].hdrs, k) = out[t].rhdrs[k]

\* a relayed response whose upstream named its own allowed origin: the
\* client has that origin alone, and the proxy's default allowed methods
C29_Witness ==
  \E t \in Answered :
    /\ pc[t] = "done"
    /\ Values(out[t].rhdrs, "Access-Control-Allow-Origin") = <<"https://site">>
    /\ Values(client[t].hdrs, "Access-Control-Allow-Origin") = <<"https://site">>
    /\ Values(CorsDefaults, "Access-Control-Allow-Origin") = <<"*">>
    /\ Values(client[t].hdrs, "Access-Control-Allow-Methods") =
         <<"GET, POST, PUT, DELETE, PATCH, HEAD, OPTIONS">>

\* a count of a statistics result; a result without the key counts nothing
Count(st, k) == IF k \in DOMAIN st THEN st[k] ELSE 0

\* the counts by key of a statistics result, summed
CountsSum(st, k) == IF k \in DOMAIN st THEN SumCounts(st[k]) ELSE 0

\* C30: every answer to GET /requests/stats counts what the store held at
\* one instant between complete operations: the newest records inserted
\* since the last Clear, at most maxSize of them, never a store holding a
\* record yet to be cut off; its total is the number of those records, the
\* sum of its success and error counts, of its status counts and of its
\* method counts
C30_StatsAtOneInstant ==
  \A a \in Admins : result[a].op = "st" =>
    LET st == result[a].stats
        seen == result[a].seen
        lg == result[a].log
        n == IF Len(lg) < maxSize THEN Len(lg) ELSE maxSize
    IN /\ result[a].status = 200
       /\ Len(seen) = n /\ Ids(seen) = Newest(n, lg)
       /\ st.total_requests = n
       /\ Count(st, "success_count") + Count(st, "error_count") = n
       /\ Count(st, "success_count") = Cardinality({i \in 1..n : seen[i].success})
       /\ CountsSum(st, "status_codes") = n
       /\ CountsSum(st, "methods") = n

\* GET /requests/stats was answered for a full store of one successful and
\* one failed request while a Clear had called Lock() and a handler was
\* about to insert its record
C30_Witness ==
  \E a, b \in Admins, t \in Reqs :
    /\ result[a].op = "st" /\ maxSize = 2
    /\ result[a].stats.total_requests = 2
    /\ Count(result[a].stats, "success_count") = 1
    /\ Count(result[a].stats, "error_count") = 1
    /\ pc[b] = "clr_wait"
    /\ pc[t] = "add_lock"

\* C31: a request's handler calls httpClient.Do at most once: a handler that
\* called AddRecord from a line before the upstream step has made no call,
\* one that called it after the upstream step has made exactly one, whether
\* the call, the body read or the relay failed or all went well
C31_OneCall ==
  \A t \in Reqs :
    /\ out[t].calls \in {0, 1}
    /\ out[t].site \in {192, 204, 215} => out[t].calls = 0
    /\ out[t].site \in {239, 254, 300} => out[t].calls = 1
    /\ pc[t] = "upstream" => out[t].calls = 1
    /\ (req[t].method \in {"OPTIONS", "CONNECT"}) => out[t].calls = 0

\* a handler whose upstream call failed is done after one call, beside one
\* that failed to build its outbound request and made none
C31_Witness ==
  \E t, u \in Reqs :
    /\ pc[t] = "done" /\ out[t].site = 239 /\ out[t].calls = 1
    /\ pc[u] = "done" /\ out[u].site = 215 /\ out[u].calls = 0

\* the error texts of the failures that come before the response is captured
EarlyErrors ==
  {"Invalid X-Fetchr-Destination URL", "Invalid URL", "Failed to create proxy request",
   "Failed to proxy request", "Failed to read response body"}

\* C36: a record of the pipeline has the upstream's status when the response
\* was received and its body read, and status 0 when the request failed
\* before that, whatever status (400, 500, 502) its client was answered; in
\* the store a status of 0 marks exactly the records of those failures, and
\* the statistics count them under status code 0
C36_StatusOfRecord ==
  /\ \A t \in Reqs : (pc[t] = "done" /\ ~lim.direct) =>
        /\ out[t].site \in FailureSites =>
             /\ rec[t].status = 0
             /\ client[t].status \in {400, 500, 502}
             /\ \A i \in HeldOf(t) : Stored[i].status = 0
        /\ out[t].site = 300 =>
             /\ rec[t].status = out[t].status /\ rec[t].status \in Statuses
             /\ \A i \in HeldOf(t) : Stored[i].status = out[t].status
  /\ ~lim.direct =>
        \A i \in 1..Len(Stored) : Stored[i].status = 0 <=> Stored[i].error \in EarlyErrors
  /\ \A a \in StatsOf :
        LET rs == result[a].seen
            failed == {i \in 1..Len(rs) : rs[i].status = 0}
        IN IF failed = {} THEN 0 \notin DOMAIN result[a].stats.status_codes
           ELSE /\ 0 \in DOMAIN result[a].stats.status_codes
                /\ result[a].stats.status_codes[0] = Cardinality(failed)

\* statistics counting one record under status 0 and one under 200, with
\* the handler of the failed request done and its client answered 502
C36_Witness ==
  /\ \E a \in StatsOf :
        /\ DOMAIN result[a].stats.status_codes = {0, 200}
        /\ result[a].stats.status_codes[0] = 1
  /\ \E t \in Reqs :
        /\ pc[t] = "done" /\ out[t].site = 239
        /\ client[t].status = 502 /\ rec[t].status = 0 /\ HeldOf(t) # {}

\* C35: every record the pipeline appended has proxy-start <= proxy-end;
\* when the upstream call was issued its stamps lie in between, in order;
\* the three stored durations are >= 0 and the total is the sum of the other
\* two, in the stored unit and in microseconds; a record of a request that
\* failed before the upstream call has no upstream stamps, upstream latency
\* 0 and an overhead equal to its total
C35_Durations ==
  ~lim.direct =>
    \A i \in 1..Len(Stored) :
      LET r == Stored[i]
      IN /\ r.pStart # 0 /\ r.pStart <= r.pEnd
         /\ r.uStart # 0 =>
              (r.pStart <= r.uStart /\ r.uStart <= r.uEnd /\ r.uEnd <= r.pEnd)
         /\ r.total >= 0 /\ r.upstream >= 0 /\ r.overhead >= 0
         /\ r.total = r.upstream + r.overhead
         /\ TotalUs(r) >= 0 /\ UpstreamUs(r) >= 0 /\ OverheadUs(r) >= 0
         /\ TotalUs(r) = UpstreamUs(r) + OverheadUs(r)
         /\ r.uStart = 0 <=>
              r.error \in {"Invalid X-Fetchr-Destination URL", "Invalid URL",
                           "Failed to create proxy request"}
         /\ r.uStart = 0 =>
              (r.uEnd = 0 /\ r.upstream = 0 /\ r.overhead = r.total
                 /\ UpstreamUs(r) = 0 /\ OverheadUs(r) = TotalUs(r))

\* the store holds a record whose upstream call was issued, with a total of
\* one millisecond of which none was spent upstream, and a record of a
\* malformed destination that took half a millisecond
C35_Witness ==
  \E i, j \in 1..Len(Stored) :
    /\ Stored[i].uStart # 0 /\ Stored[i].total = 1
    /\ Stored[i].upstream = 0 /\ Stored[i].overhead = 1
    /\ Stored[j].uStart = 0 /\ Stored[j].error = "Invalid X-Fetchr-Destination URL"
    /\ TotalUs(Stored[j]) = 500 /\ OverheadUs(Stored[j]) = 500

\* C34 as stated: statistics of an empty store hold the three averages, each
\* 0, beside total_requests = 0
C34_AsStated ==
  \A a \in Admins : (result[a].op = "st" /\ result[a].seen = <<>>) =>
    /\ result[a].stats.total_requests = 0
    /\ {"avg_duration_ms", "avg_upstream_latency_ms", "avg_proxy_overhead_ms"}
         \subseteq DOMAIN result[a].stats
    /\ result[a].stats.avg_duration_ms = 0
    /\ result[a].stats.avg_upstream_latency_ms = 0
    /\ result[a].stats.avg_proxy_overhead_ms = 0

\* handlers that have captured a request body
Captured == {t \in Reqs : rec[t].id = t /\ ~lim.direct}

\* C32 as stated: whatever the outcome of the capture, the record's request
\* size is the number of bytes read from the client, the body is read once
\* (the upstream call is not handed the stream the capture has read from),
\* and the body an upstream call was sent is the one in the record
C32_AsStated ==
  \A t \in Captured :
    /\ rec[t].reqSize = Len(req[t].read.got)
    /\ out[t].reader.kind # "original"
    /\ out[t].calls = 1 => out[t].upBody = rec[t].reqBody

\* C33 as stated: a caller changing a record of the slice GetRecords
\* returned it, a field or an entry of its header maps, leaves the records
\* the store holds as they are
C33_AsStated ==
  [][(\E a \in Admins : ChangeSnapshot(a)) => Stored' = Stored]_vars

\* positions of a task that has called Lock() and not yet acquired the lock
WriteWaits == {"add_wait", "clr_wait"}

\* positions of a task inside a store operation
InStore == WriteWaits \cup WriteInside \cup ReadWaits \cup ReadInside \cup {"add_lock"}

\* C38: whoever holds the lock is inside a store operation (a task outside
\* holds nothing); while any task is inside or waiting, some task's store
\* step can be taken (no deadlock); under fair scheduling every pending
\* Append and Clear acquires exclusive access, also with readers inside and
\* readers arriving meanwhile, and every store operation ends with its lock
\* released
C38_LockProgress ==
  /\ [](/\ wmu # NoTask => pc[wmu] \in WriteWaits \cup WriteInside
        /\ \A t \in Tasks : t \in readers <=> pc[t] \in ReadInside
        /\ \A t \in Tasks : pc[t] \in WriteInside => (wmu = t /\ readers = {})
        /\ (\E t \in Tasks : pc[t] \in InStore) =>
             ENABLED ((\E t \in Reqs : AddRecordStep(t)) \/ (\E a \in Admins : StoreStep(a))))
  /\ \A t \in Tasks :
       (pc[t] \in WriteWaits \cup {"add_lock"}) ~> (pc[t] \in WriteInside /\ wmu = t)
  /\ \A t \in Tasks :
       (pc[t] \in InStore) ~> (pc[t] \notin InStore /\ wmu # t /\ t \notin readers)

\* an Append has called Lock() and waits for a reader that is inside, while
\* a reader that arrived since is made to wait
C38_Witness ==
  \E t \in Reqs, a, b \in Admins :
    /\ pc[t] = "add_wait" /\ wmu = t
    /\ a \in readers /\ pc[a] \in ReadInside
    /\ pc[b] \in ReadWaits

\* C37: a CONNECT handler that has returned has closed every connection it
\* obtained: the destination connection if the dial succeeded, also when the
\* client connection could not be taken over, and the client connection if
\* it was taken over; a connection is obtained only by a successful dial or
\* takeover; the handler's own copy loop has ended by then, and the other
\* loop ends once both connections are closed
C37_ConnectionsClosed ==
  /\ [](\A t \in Tunnels :
          /\ tunnel[t].dest # "none" <=> tunnel[t].dial = "ok"
          /\ tunnel[t].conn # "none" <=> tunnel[t].hijack = "ok"
          /\ pc[t] \in {"done", "returned"} =>
               /\ tunnel[t].dial = "ok" => tunnel[t].dest = "closed"
               /\ tunnel[t].hijack = "ok" => tunnel[t].conn = "closed"
               /\ tunnel[t].down # "copying"
          /\ pc[t] = "relay" =>
               (tunnel[t].dest = "open" /\ tunnel[t].conn = "open"
                  /\ tunnel[t].down = "copying"))
  /\ \A t \in Reqs :
       (tunnel[t].conn = "closed" /\ tunnel[t].dest = "closed")
         ~> (tunnel[t].up = "ended" /\ tunnel[t].down = "ended")

\* a handler returned after a failed takeover with its destination
\* connection closed, beside a tunnel whose handler has just closed both
\* connections while the other copy loop has not yet ended
C37_Witness ==
  \E t, u \in Tunnels :
    /\ pc[t] \in {"done", "returned"}
    /\ tunnel[t].hijack = "failed" /\ tunnel[t].dest = "closed" /\ tunnel[t].conn = "none"
    /\ pc[u] = "done"
    /\ tunnel[u].conn = "closed" /\ tunnel[u].dest = "closed" /\ tunnel[u].up = "copying"

====
